---- MODULE Spec2Model ----
(***************************************************************************)
(* Ourotus Atlas: the hex-grid map engine (HexMap) and the data store (DB) *)
(* it reads from.                                                          *)
(*                                                                         *)
(* Numbers.  The JavaScript code computes with doubles; the model computes *)
(* with exact elements of Q(sqrt 3): the tuple <<a, b, d>> stands for      *)
(* (a + b*sqrt(3)) / d with d > 0 and gcd(a, b, d) = 1.  Math.sqrt(3) is   *)
(* <<0, 1, 1>>.  Zoom factors and pointer positions are rationals (b = 0). *)
(***************************************************************************)
EXTENDS Integers, Sequences, FiniteSets, TLC

VARIABLES
  container,    \* HexMap.container: "unset" before init, then "found" or "missing"
  canvas,       \* HexMap.canvas (and ctx): Null, or <<width, height>>
  view,         \* HexMap.view: [offsetX, offsetY, zoom]
  state,        \* HexMap.state: [isDragging, dragStart, viewStart, selectedHex, hoveredHex]
  onHexSelect,  \* HexMap.onHexSelect is set
  selects,      \* number of onHexSelect invocations so far
  lastSelect,   \* arguments of the latest onHexSelect invocation
  threw,        \* the latest handler ended in an uncaught exception
  onHexHover,   \* HexMap.onHexHover is set
  lastHover,    \* arguments of the onHexHover invocation of the latest handler, or Null
  drawn,        \* drawing calls of the last render pass of the latest handler, or Null
  touches,      \* number of fingers on the canvas
  pointer,      \* the browser's pointer: [pos, down, moved, clickPending]
  grabbed,      \* the world point under the pointer at the mousedown of the mouse
                \* drag in progress, or Null (observed, not read by any handler)
  last,         \* the latest handler call: [op, arg]
  fuel,         \* events still allowed: [ev, btn] (pointer and wheel events, zoom buttons)
  data,         \* DB.data: [meta, biomes, hexmap, notebooks, sections, pages,
                \* celestial]; meta is Null or <<record>>, hexmap is Null or
                \* <<[settings, hexes, markers]>>, the others are arrays
  status,       \* DB.status: [synced, pendingChanges]
  autoSaveTimeout, \* DB.autoSaveTimeout holds a pending timer
  geo,          \* the latest application of a pure geometry function: [op, arg, ret]
  panel,        \* the form App.onHexSelect renders into #hex-details: Null, or
                \* <<[hex, label, notes, form]>>: the hex it was rendered for, the
                \* values of its two text inputs, and which rendering it is
  hexEditTimeout, \* App.hexEditTimeout: Null, or <<[field, value, hex, form]>>, the
                \* pending closure: the input element it reads (field, form and hex
                \* of the form it belongs to) and that element's value
  appState,     \* App.state: [activeNotebook, activeSection, activePage], each
                \* Null or <<id>>
  editor,       \* the values of #page-title and #page-content: Null while the editor
                \* panel shows no inputs, or <<[title, content]>>
  editorTimeout, \* App.editorTimeout: Null, or <<[field, page, value]>>, the pending
                \* closure: the input it reads, and the input event that scheduled
                \* it (the page active then, the text typed)
  cache,        \* the IndexedDB object stores: [table -> records]; meta and hexmap
                \* hold Null or <<record>>, the others a set of records keyed by id
  saves         \* the calls of DB.saveAllToCache in progress, one slot each: Null,
                \* or <<[op, ti, iter, after]>>: the request the call awaits, the
                \* array table it is at, its array iterator, and the calls whose
                \* request on the same object store was made earlier

mapVars == <<container, canvas, view, state, onHexSelect, selects, lastSelect,
             threw, onHexHover, lastHover, drawn, touches, pointer, grabbed, fuel>>
dbVars == <<data, status, autoSaveTimeout>>
hexVars == <<panel, hexEditTimeout>>
pageVars == <<appState, editor, editorTimeout>>
cacheVars == <<cache, saves>>
appVars == <<hexVars, pageVars, cacheVars>>
vars == <<mapVars, dbVars, last, geo, appVars>>

\* null, and an absent value: the empty tuple; a present record is wrapped as <<record>>
Null == << >>

----------------------------------------------------------------------------
(* Exact arithmetic in Q(sqrt 3) *)

Abs(n) == IF n < 0 THEN -n ELSE n

RECURSIVE GCD(_, _)
GCD(m, n) == IF n = 0 THEN m ELSE GCD(n, m % n)

Norm(a, b, d) ==
  LET g0 == GCD(GCD(Abs(a), Abs(b)), Abs(d))
      g  == IF d < 0 THEN -g0 ELSE g0
  IN  <<a \div g, b \div g, d \div g>>

Num(n) == <<n, 0, 1>>
Rat(n, d) == Norm(n, 0, d)
Sqrt3 == <<0, 1, 1>>

Neg(x) == <<-x[1], -x[2], x[3]>>

Add(x, y) ==
  LET g  == GCD(x[3], y[3])
      mx == y[3] \div g
      my == x[3] \div g
  IN  Norm(x[1] * mx + y[1] * my, x[2] * mx + y[2] * my, x[3] * mx)

Sub(x, y) == Add(x, Neg(y))

\* cross-cancel the denominators first so that intermediate products stay small
Mul(x, y) ==
  LET gx == GCD(GCD(Abs(x[1]), Abs(x[2])), y[3])
      gy == GCD(GCD(Abs(y[1]), Abs(y[2])), x[3])
      xa == x[1] \div gx
      xb == x[2] \div gx
      ya == y[1] \div gy
      yb == y[2] \div gy
      xd == x[3] \div gy
      yd == y[3] \div gx
  IN  Norm(xa * ya + 3 * xb * yb, xa * yb + xb * ya, xd * yd)

IsRat(x) == x[2] = 0

\* division by a non-zero rational
Div(x, y) == Mul(x, Norm(y[3], 0, y[1]))

\* compare the positive rational A/B with sqrt(3) = [1; 1, 2, 1, 2, ...] by
\* continued fractions: 1 when A/B > sqrt(3), -1 when A/B < sqrt(3)
RECURSIVE CmpSqrt3(_, _, _)
CmpSqrt3(A, B, i) ==
  LET a == A \div B
      s == IF i = 0 THEN 1 ELSE IF i % 2 = 1 THEN 1 ELSE 2
  IN  IF a # s
        THEN IF i % 2 = 0 THEN (IF a > s THEN 1 ELSE -1)
                          ELSE (IF a < s THEN 1 ELSE -1)
        ELSE IF A % B = 0
          THEN IF (i + 1) % 2 = 0 THEN 1 ELSE -1
          ELSE CmpSqrt3(B, A % B, i + 1)

Sign(x) ==
  LET a == x[1]
      b == x[2]
  IN  IF b = 0 THEN (IF a > 0 THEN 1 ELSE IF a < 0 THEN -1 ELSE 0)
      ELSE IF a = 0 THEN (IF b > 0 THEN 1 ELSE -1)
      ELSE IF a > 0 /\ b > 0 THEN 1
      ELSE IF a < 0 /\ b < 0 THEN -1
      ELSE IF a > 0 THEN CmpSqrt3(a, -b, 0)
      ELSE -CmpSqrt3(-a, b, 0)

Lt(x, y) == Sign(Sub(x, y)) < 0
Gt(x, y) == Sign(Sub(x, y)) > 0
Leq(x, y) == Sign(Sub(x, y)) <= 0

\* Math.abs
MathAbs(x) == IF Sign(x) < 0 THEN Neg(x) ELSE x

\* Math.min / Math.max
MathMin(x, y) == IF Lt(y, x) THEN y ELSE x
MathMax(x, y) == IF Gt(y, x) THEN y ELSE x

\* Math.floor; 5/3 < sqrt(3) < 7/4 brackets the candidates
MathFloor(x) ==
  LET a == x[1]
      b == x[2]
      d == x[3]
      e1 == (3 * a + 5 * b) \div (3 * d)
      e2 == (4 * a + 7 * b) \div (4 * d)
      lo == IF e1 < e2 THEN e1 ELSE e2
      hi == IF e1 < e2 THEN e2 ELSE e1
  IN  IF b = 0 THEN a \div d
      ELSE CHOOSE k \in lo .. hi :
             /\ Sign(Sub(x, Num(k))) >= 0
             /\ Sign(Sub(x, Num(k + 1))) < 0

\* Math.round: the nearest integer, halves rounded towards +infinity
MathRound(x) == MathFloor(Add(x, Rat(1, 2)))

----------------------------------------------------------------------------
(* HexMap: constants of the object literal *)

minZoom == Rat(3, 10)
maxZoom == Num(3)
hexSize == 30
\* hex.width and hex.height as set by updateHexDimensions
hexWidth == Num(hexSize * 2)
hexHeight == Mul(Sqrt3, Num(hexSize))

\* a view is [offsetX, offsetY, zoom]

\* pixelToHex that forgets the zoom
pixelToHexFractional_noZoom(v, px, py) ==
  LET x == Sub(px, v.offsetX)
      y == Sub(py, v.offsetY)
      q == Div(Mul(Rat(2, 3), x), Num(hexSize))
      r == Div(Add(Mul(Rat(-1, 3), x), Mul(Div(Sqrt3, Num(3)), y)), Num(hexSize))
  IN  <<q, r>>

\* HexMap.pixelToHex: the fractional axial coordinates before rounding
pixelToHexFractional(v, px, py) ==
  LET x == Div(Sub(px, v.offsetX), v.zoom)
      y == Div(Sub(py, v.offsetY), v.zoom)
      q == Div(Mul(Rat(2, 3), x), Num(hexSize))
      r == Div(Add(Mul(Rat(-1, 3), x), Mul(Div(Sqrt3, Num(3)), y)), Num(hexSize))
  IN  <<q, r>>

\* roundHex with a non-strict first comparison
roundHex_geq(q, r) ==
  LET s  == Sub(Neg(q), r)
      rq == MathRound(q)
      rr == MathRound(r)
      rs == MathRound(s)
      qDiff == MathAbs(Sub(Num(rq), q))
      rDiff == MathAbs(Sub(Num(rr), r))
      sDiff == MathAbs(Sub(Num(rs), s))
  IN  IF ~Lt(qDiff, rDiff) /\ Gt(qDiff, sDiff) THEN <<-rr - rs, rr>>
      ELSE IF Gt(rDiff, sDiff) THEN <<rq, -rq - rs>>
      ELSE <<rq, rr>>

\* roundHex without the correction of the coordinate with the largest error
roundHex_plain(q, r) == <<MathRound(q), MathRound(r)>>

\* HexMap.roundHex
roundHex(q, r) ==
  LET s  == Sub(Neg(q), r)
      rq == MathRound(q)
      rr == MathRound(r)
      rs == MathRound(s)
      qDiff == MathAbs(Sub(Num(rq), q))
      rDiff == MathAbs(Sub(Num(rr), r))
      sDiff == MathAbs(Sub(Num(rs), s))
  IN  IF Gt(qDiff, rDiff) /\ Gt(qDiff, sDiff) THEN <<-rr - rs, rr>>
      ELSE IF Gt(rDiff, sDiff) THEN <<rq, -rq - rs>>
      ELSE <<rq, rr>>

\* HexMap.pixelToHex
pixelToHex(v, px, py) ==
  LET f == pixelToHexFractional(v, px, py)
  IN  roundHex(f[1], f[2])

\* HexMap.hexToPixel
hexToPixel(q, r) ==
  <<Mul(Num(hexSize), Mul(Rat(3, 2), Num(q))),
    Mul(Num(hexSize), Add(Mul(Div(Sqrt3, Num(2)), Num(q)), Mul(Sqrt3, Num(r))))>>

----------------------------------------------------------------------------
(* Bounds and inputs *)

MaxEvents == 3
MaxBtn == 1
\* the second exploration profile: a long run of zoom buttons, few other events
\* SpecDeep starts after up to DeepBtn presses of one zoom button
DeepBtn == 7
DeepEvents == 2

\* canvas.getBoundingClientRect(): left/top of the canvas in client coordinates
Rect == [left |-> 8, top |-> 16]
\* container.getBoundingClientRect(): the sizes the container takes
Sizes == { <<800, 600>>, <<1000, 700>> }
\* client positions of the pointer
Points == { <<408, 316>>, <<438, 368>> }
\* WheelEvent.deltaY
Deltas == { -100, 100 }
\* fingers that can be on the canvas at once
MaxTouches == 2
\* hex coordinates the application edits and selects by call
HexCoords == { <<11, 3>>, <<1, 0>> }

\* the stores DB.init can load
plains == [id |-> "plains", name |-> "Plains", color |-> "#7cb342", pattern |-> "solid"]
forest == [id |-> "forest", name |-> "Forest", color |-> "#2e7d32", pattern |-> "trees"]
defaultSettings == [width |-> 20, height |-> 15]
Stores ==
  { [meta |-> <<[name |-> "Ourotus"]>>,
     biomes |-> <<plains, forest>>,
     hexmap |-> <<[settings |-> defaultSettings,
                   hexes |-> <<[q |-> 11, r |-> 3, biomeId |-> "forest",
                                label |-> "Keep", notes |-> ""]>>,
                   markers |-> <<[q |-> 10, r |-> 3, icon |-> "tower"]>>]>>,
     notebooks |-> << >>, sections |-> << >>, pages |-> << >>, celestial |-> << >>] }

----------------------------------------------------------------------------
(* DB reads used by HexMap *)

\* DB.getHex
getHex(q, r) ==
  IF data.hexmap = Null THEN Null
  ELSE LET hs == data.hexmap[1].hexes
           I  == { i \in 1 .. Len(hs) : hs[i].q = q /\ hs[i].r = r }
       IN  IF I = {} THEN Null
           ELSE <<hs[CHOOSE i \in I : \A j \in I : i <= j]>>

----------------------------------------------------------------------------
(* HexMap.render: the drawing calls of one pass, in the order they are made *)

DrawCall(fn, at, arg) == [fn |-> fn, at |-> at, arg |-> arg]

\* the cases of the switch in drawBiomePattern
PatternCases == {"waves", "trees", "peaks", "dunes", "snow", "marsh", "lava", "crystals"}

\* HexMap.drawBiomePattern: the overlay drawn for biome.pattern (Null when the
\* biome has no pattern property), "none" when no case matches
drawBiomePattern(pattern) ==
  IF pattern # Null /\ pattern[1] \in PatternCases THEN pattern[1] ELSE "none"

\* HexMap.drawHex: one fill with biome.color, then the pattern overlay
drawHex(at, biome) ==
  DrawCall("drawHex", at,
           [fill    |-> biome.color,
            overlay |-> drawBiomePattern(IF "pattern" \in DOMAIN biome
                                           THEN <<biome.pattern>> ELSE Null)])

\* biomes.find(b => b.id === hex.biomeId) || { color: '#333' }
biomeOf(hex, biomes) ==
  LET I == { j \in 1 .. Len(biomes) : biomes[j].id = hex.biomeId }
  IN  IF I = {} THEN [color |-> "#333"]
      ELSE biomes[CHOOSE j \in I : \A k \in I : j <= k]

\* the hex loop of render that skips the records whose biome is missing
drawHexes_skipMissing(hexes, biomes) ==
  LET known == SelectSeq(hexes, LAMBDA h : \E j \in 1 .. Len(biomes) : biomes[j].id = h.biomeId)
  IN  [i \in 1 .. Len(known) |->
         drawHex(<<known[i].q, known[i].r>>, biomeOf(known[i], biomes))]

\* hexes.forEach(hex => this.drawHex(...)): one call per record, in store order
drawHexes(hexes, biomes) ==
  [i \in 1 .. Len(hexes) |->
     drawHex(<<hexes[i].q, hexes[i].r>>, biomeOf(hexes[i], biomes))]

\* the two highlights: hover first, then selection
drawHighlights(st) ==
  (IF st.hoveredHex # Null
     THEN <<DrawCall("drawHexHighlight", st.hoveredHex, "hover")>> ELSE << >>)
  \o (IF st.selectedHex # Null
        THEN <<DrawCall("drawHexHighlight", st.selectedHex, "selection")>> ELSE << >>)

\* hexes.forEach(hex => { if (hex.label) this.drawHexLabel(...) })
drawLabels(hexes) ==
  LET labelled == SelectSeq(hexes, LAMBDA h : h.label # "")
  IN  [i \in 1 .. Len(labelled) |->
         DrawCall("drawHexLabel", <<labelled[i].q, labelled[i].r>>, labelled[i].label)]

\* markers.forEach(marker => this.drawMarker(...))
drawMarkers(markers) ==
  [i \in 1 .. Len(markers) |->
     DrawCall("drawMarker", <<markers[i].q, markers[i].r>>, markers[i].icon)]

\* render that draws the labels before the highlights
render_labelsFirst(cv, d, st) ==
  IF cv = Null THEN Null
  ELSE LET hexes   == IF d.hexmap # Null THEN d.hexmap[1].hexes ELSE << >>
           markers == IF d.hexmap # Null THEN d.hexmap[1].markers ELSE << >>
       IN  <<DrawCall("fillRect", Null, "clear"), DrawCall("drawBackground", Null, "grid")>>
           \o drawHexes(hexes, d.biomes)
           \o drawLabels(hexes)
           \o drawHighlights(st)
           \o drawMarkers(markers)

\* HexMap.render with canvas cv (ctx exists exactly when the canvas does),
\* DB.data d and HexMap.state st: Null when it returns without drawing
render(cv, d, st) ==
  IF cv = Null THEN Null
  ELSE LET hexes   == IF d.hexmap # Null THEN d.hexmap[1].hexes ELSE << >>
           markers == IF d.hexmap # Null THEN d.hexmap[1].markers ELSE << >>
       IN  <<DrawCall("fillRect", Null, "clear"), DrawCall("drawBackground", Null, "grid")>>
           \o drawHexes(hexes, d.biomes)
           \o drawHighlights(st)
           \o drawLabels(hexes)
           \o drawMarkers(markers)

----------------------------------------------------------------------------
(* HexMap handlers.  Each assigns the HexMap variables                     *)
(* container, canvas, view, state, selects, lastSelect, threw, drawn,      *)
(* lastHover.                                                              *)

\* the offsets HexMap.centerView computes for DB.data d, a canvas and a zoom
centerOffsetsFor(d, cv, zoom) ==
  LET settings  == IF d.hexmap # Null THEN d.hexmap[1].settings ELSE defaultSettings
      mapWidth  == Mul(Mul(Num(settings.width), hexWidth), Rat(3, 4))
      mapHeight == Mul(Num(settings.height), hexHeight)
  IN  <<Div(Sub(Num(cv[1]), Mul(mapWidth, zoom)), Num(2)),
        Div(Sub(Num(cv[2]), Mul(mapHeight, zoom)), Num(2))>>

\* the same for the current DB.data
centerOffsets(cv, zoom) == centerOffsetsFor(data, cv, zoom)

\* HexMap.init; DB.data is d when it runs
init(found, size, d) ==
  /\ selects' = selects
  /\ lastSelect' = lastSelect
  /\ state' = state
  /\ threw' = FALSE
  /\ lastHover' = Null
  /\ IF ~found
       THEN /\ container' = "missing"
            /\ UNCHANGED <<canvas, view>>
            /\ drawn' = Null
       ELSE /\ container' = "found"
            \* resize()
            /\ canvas' = size
            \* centerView()
            /\ LET c == centerOffsetsFor(d, canvas', view.zoom)
               IN  view' = [view EXCEPT !.offsetX = c[1], !.offsetY = c[2]]
            /\ drawn' = render(canvas', d, state')

\* HexMap.resize
resize(size) ==
  /\ UNCHANGED <<container, view, state, selects, lastSelect>>
  /\ lastHover' = Null
  /\ IF container # "found"
       THEN \* this.container is null: getBoundingClientRect throws
            /\ threw' = TRUE
            /\ canvas' = canvas
            /\ drawn' = Null
       ELSE /\ threw' = FALSE
            /\ canvas' = size
            /\ drawn' = render(canvas', data, state')

\* onMouseDown that drops the selection
onMouseDown_deselects(e) ==
  /\ state' = [state EXCEPT !.isDragging = TRUE,
                            !.dragStart = <<e.clientX, e.clientY>>,
                            !.viewStart = <<view.offsetX, view.offsetY>>,
                            !.selectedHex = Null]
  /\ threw' = FALSE
  /\ drawn' = Null
  /\ lastHover' = Null
  /\ UNCHANGED <<container, canvas, view, selects, lastSelect>>

\* HexMap.onMouseDown
onMouseDown(e) ==
  /\ state' = [state EXCEPT !.isDragging = TRUE,
                            !.dragStart = <<e.clientX, e.clientY>>,
                            !.viewStart = <<view.offsetX, view.offsetY>>]
  /\ threw' = FALSE
  /\ drawn' = Null
  /\ lastHover' = Null
  /\ UNCHANGED <<container, canvas, view, selects, lastSelect>>

\* drag offsets with the pointer movement divided by the zoom
dragOffsets_zoomScaled(p) ==
  <<Add(state.viewStart[1], Div(Num(p[1] - state.dragStart[1]), view.zoom)),
    Add(state.viewStart[2], Div(Num(p[2] - state.dragStart[2]), view.zoom))>>

\* the offsets a drag moves to
dragOffsets(p) ==
  <<Add(state.viewStart[1], Num(p[1] - state.dragStart[1])),
    Add(state.viewStart[2], Num(p[2] - state.dragStart[2]))>>

\* the hover branch of onMouseMove, notifying on every move
hover_alwaysNotify(hex) ==
  /\ state' = [state EXCEPT !.hoveredHex = hex]
  /\ drawn' = render(canvas, data, state')
  /\ lastHover' = IF onHexHover THEN <<hex, getHex(hex[1], hex[2])>> ELSE Null

\* the hover branch of onMouseMove
hover(hex) ==
  IF state.hoveredHex = Null \/ state.hoveredHex # hex
    THEN /\ state' = [state EXCEPT !.hoveredHex = hex]
         /\ drawn' = render(canvas, data, state')
         /\ lastHover' = IF onHexHover THEN <<hex, getHex(hex[1], hex[2])>> ELSE Null
    ELSE /\ state' = state
         /\ drawn' = Null
         /\ lastHover' = Null

\* HexMap.onMouseMove
onMouseMove(e) ==
  LET x == e.clientX - Rect.left
      y == e.clientY - Rect.top
  IN  /\ threw' = FALSE
      /\ UNCHANGED <<container, canvas, selects, lastSelect>>
      /\ IF state.isDragging
           THEN LET o == dragOffsets(<<e.clientX, e.clientY>>)
                IN  /\ view' = [view EXCEPT !.offsetX = o[1], !.offsetY = o[2]]
                    /\ state' = state
                    /\ drawn' = render(canvas, data, state')
                    /\ lastHover' = Null
           ELSE /\ view' = view
                /\ hover(pixelToHex(view, Num(x), Num(y)))

\* onMouseUp that leaves isDragging set
onMouseUp_keepsDragging ==
  /\ threw' = FALSE
  /\ drawn' = Null
  /\ lastHover' = Null
  /\ UNCHANGED <<container, canvas, view, state, selects, lastSelect>>

\* onMouseUp that also forgets the hovered hex
onMouseUp_clearsHover ==
  /\ state' = [state EXCEPT !.isDragging = FALSE, !.hoveredHex = Null]
  /\ threw' = FALSE
  /\ drawn' = Null
  /\ lastHover' = Null
  /\ UNCHANGED <<container, canvas, view, selects, lastSelect>>

\* HexMap.onMouseUp
onMouseUp ==
  /\ state' = [state EXCEPT !.isDragging = FALSE]
  /\ threw' = FALSE
  /\ drawn' = Null
  /\ lastHover' = Null
  /\ UNCHANGED <<container, canvas, view, selects, lastSelect>>

\* the record onClick hands to onHexSelect, always null
clickRecord_null(hex) == Null

\* the record onClick hands to onHexSelect: DB.getHex(hex.q, hex.r)
clickRecord(hex) == getHex(hex[1], hex[2])

\* HexMap.onClick
onClick(e) ==
  /\ threw' = FALSE
  /\ lastHover' = Null
  /\ UNCHANGED <<container, canvas, view>>
  /\ IF state.isDragging
       THEN /\ UNCHANGED <<state, selects, lastSelect>>
            /\ drawn' = Null
       ELSE LET x   == e.clientX - Rect.left
                y   == e.clientY - Rect.top
                hex == pixelToHex(view, Num(x), Num(y))
            IN  /\ state' = [state EXCEPT !.selectedHex = hex]
                /\ drawn' = render(canvas, data, state')
                /\ IF onHexSelect
                     THEN /\ selects' = selects + 1
                          /\ lastSelect' = <<hex, clickRecord(hex)>>
                     ELSE UNCHANGED <<selects, lastSelect>>

\* onWheel's zoom without the clamp
wheelZoom_unclamped(e) ==
  Mul(view.zoom, IF e.deltaY > 0 THEN Rat(9, 10) ELSE Rat(11, 10))

\* the zoom onWheel moves to
wheelZoom(e) ==
  LET zoomFactor == IF e.deltaY > 0 THEN Rat(9, 10) ELSE Rat(11, 10)
  IN  MathMax(minZoom, MathMin(maxZoom, Mul(view.zoom, zoomFactor)))

\* onWheel that scales the offsets by the zoom factor, not by newZoom / zoom
onWheel_factorScale(e) ==
  LET mouseX  == Num(e.clientX - Rect.left)
      mouseY  == Num(e.clientY - Rect.top)
      newZoom == wheelZoom(e)
      scale   == IF e.deltaY > 0 THEN Rat(9, 10) ELSE Rat(11, 10)
  IN  /\ view' = [offsetX |-> Sub(mouseX, Mul(Sub(mouseX, view.offsetX), scale)),
                  offsetY |-> Sub(mouseY, Mul(Sub(mouseY, view.offsetY), scale)),
                  zoom    |-> newZoom]
      /\ threw' = FALSE
      /\ UNCHANGED <<container, canvas, state, selects, lastSelect>>
      /\ drawn' = render(canvas, data, state)
      /\ lastHover' = Null

\* HexMap.onWheel
onWheel(e) ==
  LET mouseX  == Num(e.clientX - Rect.left)
      mouseY  == Num(e.clientY - Rect.top)
      newZoom == wheelZoom(e)
      scale   == Div(newZoom, view.zoom)
  IN  /\ view' = [offsetX |-> Sub(mouseX, Mul(Sub(mouseX, view.offsetX), scale)),
                  offsetY |-> Sub(mouseY, Mul(Sub(mouseY, view.offsetY), scale)),
                  zoom    |-> newZoom]
      /\ threw' = FALSE
      /\ UNCHANGED <<container, canvas, state, selects, lastSelect>>
      /\ drawn' = render(canvas, data, state)
      /\ lastHover' = Null

\* HexMap.onTouchStart with e.touches of length n, the first touch at p
onTouchStart(n, p) ==
  /\ IF n = 1
       THEN state' = [state EXCEPT !.isDragging = TRUE,
                                   !.dragStart = p,
                                   !.viewStart = <<view.offsetX, view.offsetY>>]
       ELSE state' = state
  /\ threw' = FALSE
  /\ drawn' = Null
  /\ lastHover' = Null
  /\ UNCHANGED <<container, canvas, view, selects, lastSelect>>

\* HexMap.onTouchMove with e.touches of length n, the first touch at p
onTouchMove(n, p) ==
  /\ threw' = FALSE
  /\ lastHover' = Null
  /\ UNCHANGED <<container, canvas, state, selects, lastSelect>>
  /\ IF n = 1 /\ state.isDragging
       THEN LET o == dragOffsets(p)
            IN  /\ view' = [view EXCEPT !.offsetX = o[1], !.offsetY = o[2]]
                /\ drawn' = render(canvas, data, state)
       ELSE /\ view' = view
            /\ drawn' = Null

\* the zoom HexMap.zoomIn and HexMap.zoomOut move to
zoomInTo(zoom) == MathMin(maxZoom, Mul(zoom, Rat(6, 5)))
zoomOutTo(zoom) == MathMax(minZoom, Div(zoom, Rat(6, 5)))

\* HexMap.zoomIn
zoomIn ==
  /\ view' = [view EXCEPT !.zoom = zoomInTo(view.zoom)]
  /\ threw' = FALSE
  /\ UNCHANGED <<container, canvas, state, selects, lastSelect>>
  /\ drawn' = render(canvas, data, state)
  /\ lastHover' = Null

\* HexMap.zoomOut
zoomOut ==
  /\ view' = [view EXCEPT !.zoom = zoomOutTo(view.zoom)]
  /\ threw' = FALSE
  /\ UNCHANGED <<container, canvas, state, selects, lastSelect>>
  /\ drawn' = render(canvas, data, state)
  /\ lastHover' = Null

\* resetView that re-centers at the current zoom
resetView_keepsZoom ==
  /\ UNCHANGED <<container, canvas, state, selects, lastSelect>>
  /\ lastHover' = Null
  /\ IF canvas = Null
       THEN /\ view' = view
            /\ threw' = TRUE
            /\ drawn' = Null
       ELSE LET c == centerOffsets(canvas, view.zoom)
            IN  /\ view' = [view EXCEPT !.offsetX = c[1], !.offsetY = c[2]]
                /\ threw' = FALSE
                /\ drawn' = render(canvas, data, state)

\* HexMap.resetView: zoom is set before centerView reads the canvas
resetView ==
  /\ UNCHANGED <<container, canvas, state, selects, lastSelect>>
  /\ lastHover' = Null
  /\ IF canvas = Null
       THEN /\ view' = [view EXCEPT !.zoom = Num(1)]
            /\ threw' = TRUE
            /\ drawn' = Null
       ELSE LET c == centerOffsets(canvas, Num(1))
            IN  /\ view' = [offsetX |-> c[1], offsetY |-> c[2], zoom |-> Num(1)]
                /\ threw' = FALSE
                /\ drawn' = render(canvas, data, state)

\* HexMap.selectHex
selectHex(q, r) ==
  /\ state' = [state EXCEPT !.selectedHex = <<q, r>>]
  /\ threw' = FALSE
  /\ lastHover' = Null
  /\ UNCHANGED <<container, canvas, view>>
  /\ drawn' = render(canvas, data, state')
  /\ IF onHexSelect
       THEN /\ selects' = selects + 1
            /\ lastSelect' = <<<<q, r>>, getHex(q, r)>>
       ELSE UNCHANGED <<selects, lastSelect>>

----------------------------------------------------------------------------
(* The application and the browser drive the handlers *)

Event(p) == [clientX |-> p[1], clientY |-> p[2]]
WheelEvent(p, d) == [clientX |-> p[1], clientY |-> p[2], deltaY |-> d]
Call(op, arg) == [op |-> op, arg |-> arg]

\* the canvas point of the pointer: clientX - rect.left, clientY - rect.top
canvasPoint(pos) == <<Num(pos[1] - Rect.left), Num(pos[2] - Rect.top)>>

\* the world point shown at canvas point p in view v
toWorld(v, p) ==
  <<Div(Sub(p[1], v.offsetX), v.zoom), Div(Sub(p[2], v.offsetY), v.zoom)>>

\* App.onHexSelect(hex, hexData): the form shows hexData?.label || '' and
\* hexData?.notes || ''
\* every call replaces the elements of the form by new ones (innerHTML); the
\* renderings are numbered by the calls of the callback
AppOnHexSelect(hex, hexData) ==
  <<[hex   |-> hex,
     label |-> IF hexData # Null THEN hexData[1].label ELSE "",
     notes |-> IF hexData # Null THEN hexData[1].notes ELSE "",
     form  |-> selects']>>

\* the form after a handler that may have invoked the onHexSelect callback
panelAfter == IF selects' # selects THEN AppOnHexSelect(lastSelect'[1], lastSelect'[2]) ELSE panel

mapOnly == UNCHANGED <<dbVars, geo, appVars>>
\* a handler that invokes onHexSelect leaves alone all but HexMap and the form
selectOnly == UNCHANGED <<dbVars, geo, hexEditTimeout, pageVars, cacheVars>>
idle == ~pointer.clickPending

InitMap ==
  /\ container = "unset"
  /\ canvas = Null
  /\ view = [offsetX |-> Num(0), offsetY |-> Num(0), zoom |-> Num(1)]
  /\ state = [isDragging |-> FALSE, dragStart |-> <<0, 0>>,
              viewStart |-> <<Num(0), Num(0)>>,
              selectedHex |-> Null, hoveredHex |-> Null]
  /\ onHexSelect = FALSE
  /\ selects = 0
  /\ lastSelect = Null
  /\ threw = FALSE
  /\ onHexHover = FALSE
  /\ lastHover = Null
  /\ drawn = Null
  /\ touches = 0
  /\ pointer = [pos |-> Null, down |-> FALSE, moved |-> FALSE, clickPending |-> FALSE]
  /\ grabbed = Null

InitDB ==
  /\ data = [meta |-> Null, biomes |-> << >>, hexmap |-> Null, notebooks |-> << >>,
             sections |-> << >>, pages |-> << >>, celestial |-> << >>]
  /\ status = [synced |-> TRUE, pendingChanges |-> {}]
  /\ autoSaveTimeout = FALSE

\* the object stores of the cache
Tables == {"meta", "biomes", "hexmap", "notebooks", "sections", "pages", "celestial"}
ArrayTables == <<"biomes", "notebooks", "sections", "pages", "celestial">>

\* the records of an array
items(seq) == { seq[i] : i \in 1 .. Len(seq) }

\* { ...record, id }
withId(rec, id) ==
  [f \in DOMAIN rec \cup {"id"} |-> IF f = "id" THEN id ELSE rec[f]]

\* the record saveAllToCache puts for meta and hexmap
singleton(t, rec) == withId(rec, IF t = "meta" THEN "world_meta" ELSE "world_hexmap")

\* a cache that holds exactly DB.data d
cacheOf(d) ==
  [t \in Tables |->
     IF t \in {"meta", "hexmap"}
       THEN (IF d[t] = Null THEN Null ELSE <<singleton(t, d[t][1])>>)
       ELSE items(d[t])]

\* saveAllToCache calls that can be in progress at once
MaxSaves == 2

InitApp ==
  /\ panel = Null
  /\ hexEditTimeout = Null
  /\ appState = [activeNotebook |-> Null, activeSection |-> Null, activePage |-> Null]
  /\ editor = Null
  /\ editorTimeout = Null
  /\ cache = cacheOf(data)
  /\ saves = [i \in 1 .. MaxSaves |-> Null]

Init ==
  /\ InitMap
  /\ InitDB
  /\ InitApp
  /\ fuel = [ev |-> MaxEvents, btn |-> MaxBtn]
  /\ last = Call("none", Null)
  /\ geo = Call("none", Null)

\* App.init: DB.init loads a store, then HexMap.init, then the callback is set
AppInit ==
  /\ container = "unset"
  /\ \E found \in BOOLEAN, size \in Sizes, store \in Stores :
       /\ data' = store
       /\ init(found, size, store)
       /\ last' = Call("init", Null)
  /\ onHexSelect' = TRUE
  \* App registers no hover callback
  /\ UNCHANGED <<onHexHover, touches, grabbed>>
  \* the pointer is outside the canvas when the canvas appears
  /\ pointer' = [pos |-> Null, down |-> FALSE, moved |-> FALSE, clickPending |-> FALSE]
  \* DB.init leaves the cache holding what it loaded
  /\ cache' = cacheOf(data')
  /\ UNCHANGED <<status, autoSaveTimeout, fuel, geo, hexVars, pageVars, saves>>

\* window resize, or App.switchTab('map')
Resize ==
  /\ container # "unset" /\ idle
  /\ \E size \in Sizes :
       /\ resize(size)
       /\ last' = Call("resize", Null)
  /\ UNCHANGED <<grabbed, onHexSelect, onHexHover, touches, pointer, fuel>>
  /\ mapOnly

MouseDown ==
  /\ canvas # Null /\ idle
  /\ pointer.pos # Null /\ ~pointer.down
  /\ fuel.ev > 0
  /\ fuel' = [fuel EXCEPT !.ev = @ - 1]
  /\ onMouseDown(Event(pointer.pos))
  /\ pointer' = [pointer EXCEPT !.down = TRUE, !.moved = FALSE]
  /\ grabbed' = toWorld(view, canvasPoint(pointer.pos))
  /\ last' = Call("mousedown", Null)
  /\ UNCHANGED <<onHexSelect, onHexHover, touches>>
  /\ mapOnly

MouseMove ==
  /\ canvas # Null /\ idle
  /\ fuel.ev > 0
  /\ fuel' = [fuel EXCEPT !.ev = @ - 1]
  /\ \E p \in Points \ {pointer.pos} :
       /\ onMouseMove(Event(p))
       /\ pointer' = [pointer EXCEPT !.pos = p, !.moved = pointer.down]
       /\ last' = Call("mousemove", Null)
  /\ UNCHANGED <<grabbed, onHexSelect, onHexHover, touches>>
  /\ mapOnly

\* the browser dispatches click right after a mouseup on the element that
\* received the mousedown
MouseUp ==
  /\ canvas # Null /\ idle
  /\ pointer.down
  /\ onMouseUp
  /\ pointer' = [pointer EXCEPT !.down = FALSE, !.clickPending = TRUE]
  /\ grabbed' = Null
  /\ last' = Call("mouseup", Null)
  /\ UNCHANGED <<onHexSelect, onHexHover, touches, fuel>>
  /\ mapOnly

MouseLeave ==
  /\ canvas # Null /\ idle
  /\ pointer.pos # Null
  /\ onMouseUp
  /\ pointer' = [pos |-> Null, down |-> FALSE, moved |-> FALSE, clickPending |-> FALSE]
  /\ grabbed' = Null
  /\ last' = Call("mouseleave", Null)
  /\ UNCHANGED <<onHexSelect, onHexHover, touches, fuel>>
  /\ mapOnly

Click ==
  /\ canvas # Null
  /\ pointer.clickPending
  /\ onClick(Event(pointer.pos))
  /\ pointer' = [pointer EXCEPT !.clickPending = FALSE]
  /\ last' = Call("click", Null)
  /\ panel' = panelAfter
  /\ UNCHANGED <<grabbed, onHexSelect, onHexHover, touches, fuel>>
  /\ selectOnly

Wheel ==
  /\ canvas # Null /\ idle
  /\ pointer.pos # Null
  /\ fuel.ev > 0
  /\ fuel' = [fuel EXCEPT !.ev = @ - 1]
  /\ \E d \in Deltas :
       /\ onWheel(WheelEvent(pointer.pos, d))
       /\ last' = Call("wheel", d)
  /\ UNCHANGED <<grabbed, onHexSelect, onHexHover, touches, pointer>>
  /\ mapOnly

ZoomIn ==
  /\ container # "unset" /\ idle
  /\ fuel.btn > 0
  /\ fuel' = [fuel EXCEPT !.btn = @ - 1]
  /\ zoomIn
  /\ last' = Call("zoomIn", Null)
  /\ UNCHANGED <<grabbed, onHexSelect, onHexHover, touches, pointer>>
  /\ mapOnly

ZoomOut ==
  /\ container # "unset" /\ idle
  /\ fuel.btn > 0
  /\ fuel' = [fuel EXCEPT !.btn = @ - 1]
  /\ zoomOut
  /\ last' = Call("zoomOut", Null)
  /\ UNCHANGED <<grabbed, onHexSelect, onHexHover, touches, pointer>>
  /\ mapOnly

ResetView ==
  /\ container # "unset" /\ idle
  /\ resetView
  /\ last' = Call("resetView", Null)
  /\ UNCHANGED <<grabbed, onHexSelect, onHexHover, touches, pointer, fuel>>
  /\ mapOnly

\* a finger is put on the canvas; e.touches lists every finger now on it
TouchStart ==
  /\ canvas # Null /\ idle
  /\ touches < MaxTouches
  /\ fuel.ev > 0
  /\ fuel' = [fuel EXCEPT !.ev = @ - 1]
  /\ \E p \in Points :
       /\ onTouchStart(touches + 1, p)
       /\ last' = Call("touchstart", Null)
  /\ touches' = touches + 1
  \* a first finger takes the drag over from the mouse
  /\ grabbed' = IF touches = 0 THEN Null ELSE grabbed
  /\ UNCHANGED <<onHexSelect, onHexHover, pointer>>
  /\ mapOnly

TouchMove ==
  /\ canvas # Null /\ idle
  /\ touches > 0
  /\ fuel.ev > 0
  /\ fuel' = [fuel EXCEPT !.ev = @ - 1]
  /\ \E p \in Points :
       /\ onTouchMove(touches, p)
       /\ last' = Call("touchmove", Null)
  /\ UNCHANGED <<grabbed, onHexSelect, onHexHover, touches, pointer>>
  /\ mapOnly

\* a finger is lifted: touchend is bound to onMouseUp
TouchEnd ==
  /\ canvas # Null /\ idle
  /\ touches > 0
  /\ onMouseUp
  /\ touches' = touches - 1
  /\ last' = Call("touchend", Null)
  /\ UNCHANGED <<grabbed, onHexSelect, onHexHover, pointer, fuel>>
  /\ mapOnly

\* a call of the public method HexMap.selectHex
SelectHex ==
  /\ container # "unset" /\ idle
  /\ fuel.btn > 0
  /\ fuel' = [fuel EXCEPT !.btn = @ - 1]
  /\ \E c \in HexCoords :
       /\ selectHex(c[1], c[2])
       /\ last' = Call("selectHex", Null)
  /\ panel' = panelAfter
  /\ UNCHANGED <<grabbed, onHexSelect, onHexHover, touches, pointer>>
  /\ selectOnly

NextRun ==
  \/ Resize
  \/ MouseDown
  \/ MouseMove
  \/ MouseUp
  \/ MouseLeave
  \/ Click
  \/ Wheel
  \/ ZoomIn
  \/ ZoomOut
  \/ ResetView
  \/ TouchStart
  \/ TouchMove
  \/ TouchEnd
  \/ SelectHex

Next ==
  \/ AppInit
  \/ NextRun

Spec == Init /\ [][Next]_vars

\* the view after App.init and k presses of the zoom-in or the zoom-out button
RECURSIVE zoomInTimes(_, _)
zoomInTimes(zoom, k) == IF k = 0 THEN zoom ELSE zoomInTimes(zoomInTo(zoom), k - 1)
RECURSIVE zoomOutTimes(_, _)
zoomOutTimes(zoom, k) == IF k = 0 THEN zoom ELSE zoomOutTimes(zoomOutTo(zoom), k - 1)

InitDeep ==
  /\ container = "found"
  /\ canvas \in Sizes
  /\ data \in Stores
  /\ \E k \in 0 .. DeepBtn, dir \in {"zoomIn", "zoomOut"} :
       LET c == centerOffsets(canvas, Num(1))
           z == IF dir = "zoomIn" THEN zoomInTimes(Num(1), k) ELSE zoomOutTimes(Num(1), k)
       IN  /\ view = [offsetX |-> c[1], offsetY |-> c[2], zoom |-> z]
           /\ last = Call(IF k = 0 THEN "init" ELSE dir, Null)
  /\ state = [isDragging |-> FALSE, dragStart |-> <<0, 0>>,
              viewStart |-> <<Num(0), Num(0)>>,
              selectedHex |-> Null, hoveredHex |-> Null]
  /\ onHexSelect = TRUE
  /\ selects = 0
  /\ lastSelect = Null
  /\ threw = FALSE
  /\ onHexHover = FALSE
  /\ lastHover = Null
  /\ drawn = render(canvas, data, state)
  /\ touches = 0
  /\ pointer = [pos |-> Null, down |-> FALSE, moved |-> FALSE, clickPending |-> FALSE]
  /\ grabbed = Null
  /\ status = [synced |-> TRUE, pendingChanges |-> {}]
  /\ autoSaveTimeout = FALSE
  /\ fuel = [ev |-> DeepEvents, btn |-> 1]
  /\ geo = Call("none", Null)
  /\ InitApp

SpecDeep == InitDeep /\ [][NextRun]_vars

\* the third exploration profile: a host page has registered a hover callback
\* in the slot HexMap.onHexHover after App.init
HoverEvents == 2
InitHover ==
  /\ container = "found"
  /\ canvas \in Sizes
  /\ data \in Stores
  /\ LET c == centerOffsets(canvas, Num(1))
     IN  view = [offsetX |-> c[1], offsetY |-> c[2], zoom |-> Num(1)]
  /\ last = Call("init", Null)
  /\ state = [isDragging |-> FALSE, dragStart |-> <<0, 0>>,
              viewStart |-> <<Num(0), Num(0)>>,
              selectedHex |-> Null, hoveredHex |-> Null]
  /\ onHexSelect = TRUE
  /\ selects = 0
  /\ lastSelect = Null
  /\ threw = FALSE
  /\ onHexHover = TRUE
  /\ lastHover = Null
  /\ drawn = render(canvas, data, state)
  /\ touches = 0
  /\ pointer = [pos |-> Null, down |-> FALSE, moved |-> FALSE, clickPending |-> FALSE]
  /\ grabbed = Null
  /\ status = [synced |-> TRUE, pendingChanges |-> {}]
  /\ autoSaveTimeout = FALSE
  /\ fuel = [ev |-> HoverEvents, btn |-> 1]
  /\ geo = Call("none", Null)
  /\ InitApp

SpecHover == InitHover /\ [][NextRun]_vars

----------------------------------------------------------------------------
(* DB: biomes and hex records *)

MaxBiomes == 3
BiomeIds == {"plains", "forest", "swamp"}
Labels == {"keep"}

CallR(op, arg, ret) == [op |-> op, arg |-> arg, ret |-> ret]

\* markModified that does not schedule the autosave
markModified_noSchedule(table) ==
  /\ status' = [status EXCEPT !.synced = FALSE,
                              !.pendingChanges = @ \cup {table}]
  /\ autoSaveTimeout' = autoSaveTimeout

\* DB.markModified, with DB.scheduleAutoSave
markModified(table) ==
  /\ status' = [status EXCEPT !.synced = FALSE,
                              !.pendingChanges = @ \cup {table}]
  /\ autoSaveTimeout' = TRUE

\* findIndex: the first index whose record has the id, 0 for -1
findIndex(seq, id) ==
  LET I == { i \in 1 .. Len(seq) : seq[i].id = id }
  IN  IF I = {} THEN 0 ELSE CHOOSE i \in I : \A j \in I : i <= j

\* Array.prototype.splice(idx, 1)
splice(seq, idx) ==
  [j \in 1 .. Len(seq) - 1 |-> IF j < idx THEN seq[j] ELSE seq[j + 1]]

\* DB.createBiome
createBiome(d) ==
  /\ data' = [data EXCEPT !.biomes =
                 Append(@, [id |-> d.id, name |-> d.name,
                            color   |-> IF "color" \in DOMAIN d THEN d.color ELSE "#808080",
                            pattern |-> IF "pattern" \in DOMAIN d THEN d.pattern ELSE "solid"])]
  /\ markModified("biomes")
  /\ last' = CallR("createBiome", d.id, TRUE)

\* DB.updateBiome
updateBiome(id, d) ==
  LET idx == findIndex(data.biomes, id)
  IN  IF idx = 0
        THEN /\ UNCHANGED dbVars
             /\ last' = CallR("updateBiome", id, FALSE)
        ELSE /\ data' = [data EXCEPT !.biomes[idx].name = d.name]
             /\ markModified("biomes")
             /\ last' = CallR("updateBiome", id, TRUE)

\* hexes.some(h => h.biomeId === id)
usedByHex(id) ==
  /\ data.hexmap # Null
  /\ \E i \in 1 .. Len(data.hexmap[1].hexes) : data.hexmap[1].hexes[i].biomeId = id

\* deleteBiome without the check for hexes that use the biome
deleteBiome_unchecked(id) ==
  LET idx == findIndex(data.biomes, id)
  IN  IF idx = 0
        THEN /\ UNCHANGED dbVars
             /\ last' = CallR("deleteBiome", id, FALSE)
        ELSE /\ data' = [data EXCEPT !.biomes = splice(@, idx)]
             /\ markModified("biomes")
             /\ last' = CallR("deleteBiome", id, TRUE)

\* DB.deleteBiome
deleteBiome(id) ==
  LET idx == findIndex(data.biomes, id)
  IN  IF usedByHex(id) \/ idx = 0
        THEN /\ UNCHANGED dbVars
             /\ last' = CallR("deleteBiome", id, FALSE)
        ELSE /\ data' = [data EXCEPT !.biomes = splice(@, idx)]
             /\ markModified("biomes")
             /\ last' = CallR("deleteBiome", id, TRUE)

\* Object.assign(hex, d): d carries one of biomeId, label, notes
assign(hex, d) == [f \in DOMAIN hex |-> IF f \in DOMAIN d THEN d[f] ELSE hex[f]]

\* updateHex that pushes a record without looking for an existing one
updateHex_alwaysPush(q, r, d) ==
  IF data.hexmap = Null
    THEN /\ UNCHANGED dbVars
         /\ last' = CallR("updateHex", <<q, r>>, FALSE)
    ELSE LET hs  == data.hexmap[1].hexes
             new == [q |-> q, r |-> r, biomeId |-> "plains", label |-> "", notes |-> ""]
         IN  /\ data' = [data EXCEPT !.hexmap[1].hexes = Append(hs, assign(new, d))]
             /\ markModified("hexmap")
             /\ last' = CallR("updateHex", <<q, r>>, TRUE)

\* DB.updateHex
updateHex(q, r, d) ==
  IF data.hexmap = Null
    THEN /\ UNCHANGED dbVars
         /\ last' = CallR("updateHex", <<q, r>>, FALSE)
    ELSE LET hs   == data.hexmap[1].hexes
             I    == { i \in 1 .. Len(hs) : hs[i].q = q /\ hs[i].r = r }
             new  == [q |-> q, r |-> r, biomeId |-> "plains", label |-> "", notes |-> ""]
             hs1  == IF I = {} THEN Append(hs, new) ELSE hs
             idx  == IF I = {} THEN Len(hs1) ELSE CHOOSE i \in I : \A j \in I : i <= j
         IN  /\ data' = [data EXCEPT !.hexmap[1].hexes =
                                       [hs1 EXCEPT ![idx] = assign(hs1[idx], d)]]
             /\ markModified("hexmap")
             /\ last' = CallR("updateHex", <<q, r>>, TRUE)

dbOnly == UNCHANGED <<mapVars, geo, appVars>>

\* DB.init: loadFromCache fills DB.data
DBInit ==
  /\ data.hexmap = Null /\ data.biomes = << >>
  /\ data' \in Stores
  /\ status' = [status EXCEPT !.synced = TRUE, !.pendingChanges = {}]
  /\ autoSaveTimeout' = autoSaveTimeout
  /\ last' = CallR("init", Null, TRUE)
  \* the cache holds what was loaded
  /\ cache' = cacheOf(data')
  /\ UNCHANGED <<mapVars, geo, hexVars, pageVars, saves>>

\* App.showBiomeModal, save handler of a new biome: the id is made from the name
CreateBiome ==
  /\ Len(data.biomes) < MaxBiomes
  /\ \E id \in BiomeIds : createBiome([id |-> id, name |-> id])
  /\ dbOnly

\* App.showBiomeModal, save handler of an existing biome
UpdateBiome ==
  /\ \E id \in BiomeIds, name \in {"renamed"} : updateBiome(id, [name |-> name])
  /\ dbOnly

\* App.showBiomeModal, delete handler
DeleteBiome ==
  /\ \E id \in BiomeIds : deleteBiome(id)
  /\ dbOnly

\* App.onHexBiomeChange (a biome of the list), onHexLabelChange, onHexNotesChange
UpdateHex ==
  /\ \E c \in HexCoords :
       \E d \in { [biomeId |-> data.biomes[i].id] : i \in 1 .. Len(data.biomes) }
                \cup { [label |-> l] : l \in Labels }
                \cup { [notes |-> l] : l \in Labels } :
         updateHex(c[1], c[2], d)
  /\ dbOnly

NextDB ==
  \/ DBInit
  \/ CreateBiome
  \/ UpdateBiome
  \/ DeleteBiome
  \/ UpdateHex

SpecDB == Init /\ [][NextDB]_vars

----------------------------------------------------------------------------
(* DB: notebooks, sections and pages.  The timestamps createdAt and        *)
(* updatedAt are left out of the records.                                  *)

\* DB.markModified called for each of several tables in a row
markModifiedEach(tables) ==
  /\ status' = [status EXCEPT !.synced = FALSE,
                              !.pendingChanges = @ \cup tables]
  /\ autoSaveTimeout' = TRUE

\* deleteNotebook that leaves the pages of the notebook's sections in place
deleteNotebook_keepsPages(id) ==
  LET i == findIndex(data.notebooks, id)
  IN  IF i = 0
        THEN /\ UNCHANGED dbVars
             /\ last' = CallR("deleteNotebook", id, FALSE)
        ELSE /\ data' = [data EXCEPT
                           !.sections = SelectSeq(@, LAMBDA x : x.notebookId # id),
                           !.notebooks = splice(@, i)]
             /\ markModifiedEach({"notebooks", "sections", "pages"})
             /\ last' = CallR("deleteNotebook", id, TRUE)

\* DB.deleteNotebook
deleteNotebook(id) ==
  LET i == findIndex(data.notebooks, id)
      secIds == { data.sections[k].id :
                    k \in { k \in 1 .. Len(data.sections) : data.sections[k].notebookId = id } }
  IN  IF i = 0
        THEN /\ UNCHANGED dbVars
             /\ last' = CallR("deleteNotebook", id, FALSE)
        ELSE /\ data' = [data EXCEPT
                           !.pages = SelectSeq(@, LAMBDA x : x.sectionId \notin secIds),
                           !.sections = SelectSeq(@, LAMBDA x : x.notebookId # id),
                           !.notebooks = splice(@, i)]
             /\ markModifiedEach({"notebooks", "sections", "pages"})
             /\ last' = CallR("deleteNotebook", id, TRUE)

\* DB.deleteSection
deleteSection(id) ==
  LET i == findIndex(data.sections, id)
  IN  IF i = 0
        THEN /\ UNCHANGED dbVars
             /\ last' = CallR("deleteSection", id, FALSE)
        ELSE /\ data' = [data EXCEPT
                           !.pages = SelectSeq(@, LAMBDA x : x.sectionId # id),
                           !.sections = splice(@, i)]
             /\ markModifiedEach({"sections", "pages"})
             /\ last' = CallR("deleteSection", id, TRUE)

\* DB.getPage
getPage(id) ==
  LET i == findIndex(data.pages, id)
  IN  IF i = 0 THEN Null ELSE <<data.pages[i]>>

\* DB.updatePage: d carries title or content
updatePage(id, d) ==
  LET i == findIndex(data.pages, id)
  IN  IF i = 0
        THEN /\ UNCHANGED dbVars
             /\ last' = CallR("updatePage", id, FALSE)
        ELSE /\ data' = [data EXCEPT !.pages[i] = assign(@, d)]
             /\ markModified("pages")
             /\ last' = CallR("updatePage", id, TRUE)

\* DB.deletePage
deletePage(id) ==
  LET i == findIndex(data.pages, id)
  IN  IF i = 0
        THEN /\ UNCHANGED dbVars
             /\ last' = CallR("deletePage", id, FALSE)
        ELSE /\ data' = [data EXCEPT !.pages = splice(@, i)]
             /\ markModified("pages")
             /\ last' = CallR("deletePage", id, TRUE)

\* the notebooks, sections and pages a store can hold: two notebooks, sections
\* of both and of a notebook that is gone, pages of those sections and of a
\* section that is gone
NotebookIds == {"nb1", "nb2", "nb9"}
SectionIds == {"s1", "s2", "s3", "s4", "s9"}
PageIds == {"p1", "p2", "p3", "p4", "p5", "p9"}
Notebook(id) == [id |-> id, name |-> id]
Section(id, nb) == [id |-> id, notebookId |-> nb, name |-> id]
Page(id, sec) == [id |-> id, sectionId |-> sec, title |-> id, content |-> ""]
\* <<x>> or nothing
opt(x) == { << >>, <<x>> }
LoreStores ==
  { [meta |-> <<[name |-> "Ourotus"]>>, biomes |-> <<plains>>, hexmap |-> Null,
     notebooks |-> <<Notebook("nb1"), Notebook("nb2")>>,
     sections |-> a \o b \o c \o d,
     pages |-> e \o f \o g \o h \o i,
     celestial |-> << >>] :
      a \in opt(Section("s1", "nb1")), b \in {<<Section("s3", "nb2")>>},
      c \in opt(Section("s2", "nb1")), d \in opt(Section("s4", "nb9")),
      e \in opt(Page("p1", "s1")), f \in {<<Page("p3", "s3")>>},
      g \in {<<Page("p2", "s1")>>}, h \in opt(Page("p4", "s2")),
      i \in opt(Page("p5", "s9")) }

\* the store is loaded, nothing is selected
InitLore ==
  /\ InitMap
  /\ data \in LoreStores
  /\ status = [synced |-> TRUE, pendingChanges |-> {}]
  /\ autoSaveTimeout = FALSE
  /\ InitApp
  /\ fuel = [ev |-> 0, btn |-> 0]
  /\ last = Call("none", Null)
  /\ geo = Call("none", Null)

\* App.deleteNotebook, App.deleteSection and App.deletePage call these with the
\* id of a list item; the ids that name nothing stand for a list item that is
\* out of date
DeleteNotebook ==
  /\ \E id \in NotebookIds : deleteNotebook(id)
  /\ dbOnly

DeleteSection ==
  /\ \E id \in SectionIds : deleteSection(id)
  /\ dbOnly

DeletePage ==
  /\ \E id \in PageIds : deletePage(id)
  /\ dbOnly

NextLore ==
  \/ DeleteNotebook
  \/ DeleteSection
  \/ DeletePage

SpecLore == InitLore /\ [][NextLore]_vars

----------------------------------------------------------------------------
(* App: the hex details form and its debounced edits *)

\* pointer events of an editing session
EditEvents == 2
\* texts typed into the label and notes inputs
Texts == {"Inn", "Ford"}

\* App.onHexLabelChange and App.onHexNotesChange on an input event of the
\* element `field` of the current form, whose value is now v
onHexTextChange(field, v) ==
  IF state.selectedHex = Null
    THEN UNCHANGED hexEditTimeout
    ELSE \* clearTimeout(this.hexEditTimeout); this.hexEditTimeout = setTimeout(...)
         hexEditTimeout' = <<[field |-> field, value |-> v,
                              hex |-> panel[1].hex, form |-> panel[1].form]>>

\* the closure the timer runs: it reads HexMap.state.selectedHex and
\* e.target.value when it runs
hexEditWrite(f) ==
  LET c == state.selectedHex
  IN  /\ updateHex(c[1], c[2], IF f.field = "label" THEN [label |-> f.value]
                                                     ELSE [notes |-> f.value])
      \* HexMap.render() follows a label edit only
      /\ drawn' = IF f.field = "label" THEN render(canvas, data', state) ELSE Null

\* the user types into the label or the notes input of the form
HexTextInput ==
  /\ panel # Null /\ idle
  /\ \E field \in {"label", "notes"} :
       \E v \in Texts \ {panel[1][field]} :
         /\ panel' = [panel EXCEPT ![1][field] = v]
         /\ onHexTextChange(field, v)
         /\ last' = Call("hexTextInput", <<field, v>>)
  /\ UNCHANGED <<mapVars, dbVars, geo, pageVars, cacheVars>>

\* 500 ms after the latest input event the pending closure runs
HexEditTimer ==
  /\ hexEditTimeout # Null /\ idle
  /\ hexEditWrite(hexEditTimeout[1])
  /\ hexEditTimeout' = Null
  /\ UNCHANGED <<container, canvas, view, state, onHexSelect, selects, lastSelect,
                 threw, onHexHover, lastHover, touches, pointer, grabbed, fuel>>
  /\ UNCHANGED <<panel, geo, pageVars, cacheVars>>

\* the fourth exploration profile: an editing session on the map tab
InitEdit ==
  /\ container = "found"
  /\ canvas \in Sizes
  /\ data \in Stores
  /\ LET c == centerOffsets(canvas, Num(1))
     IN  view = [offsetX |-> c[1], offsetY |-> c[2], zoom |-> Num(1)]
  /\ last = Call("init", Null)
  /\ state = [isDragging |-> FALSE, dragStart |-> <<0, 0>>,
              viewStart |-> <<Num(0), Num(0)>>,
              selectedHex |-> Null, hoveredHex |-> Null]
  /\ onHexSelect = TRUE
  /\ selects = 0
  /\ lastSelect = Null
  /\ threw = FALSE
  /\ onHexHover = FALSE
  /\ lastHover = Null
  /\ drawn = render(canvas, data, state)
  /\ touches = 0
  /\ pointer = [pos |-> Null, down |-> FALSE, moved |-> FALSE, clickPending |-> FALSE]
  /\ grabbed = Null
  /\ status = [synced |-> TRUE, pendingChanges |-> {}]
  /\ autoSaveTimeout = FALSE
  /\ fuel = [ev |-> EditEvents, btn |-> 1]
  /\ geo = Call("none", Null)
  /\ InitApp

NextEdit ==
  \/ MouseMove
  \/ MouseDown
  \/ MouseUp
  \/ Click
  \/ SelectHex
  \/ HexTextInput
  \/ HexEditTimer

SpecEdit == InitEdit /\ [][NextEdit]_vars

----------------------------------------------------------------------------
(* App: the page editor and its debounced edits *)

\* texts typed into the title and content inputs
PageTexts == {"Lore", "Maps"}

\* App.selectPage: renderEditor copies the page into the two inputs (after
\* rebuildEditorPanel when they are missing) and returns early when DB.getPage
\* finds nothing
selectPage(pageId) ==
  /\ appState' = [appState EXCEPT !.activePage = <<pageId>>]
  /\ LET page == getPage(pageId)
     IN  editor' = IF page = Null THEN editor
                   ELSE <<[title |-> page[1].title, content |-> page[1].content]>>

\* App.onPageTitleChange and App.onPageContentChange on an input event of the
\* input `field`, whose value is now v
onPageTextChange(field, v) ==
  IF appState.activePage = Null
    THEN UNCHANGED editorTimeout
    ELSE \* clearTimeout(this.editorTimeout); this.editorTimeout = setTimeout(...)
         editorTimeout' = <<[field |-> field, page |-> appState.activePage[1],
                             value |-> v]>>

\* the closure the timer runs: it reads App.state.activePage and e.target.value
\* when it runs
editorWrite(f) ==
  IF appState.activePage = Null
    THEN \* DB.updatePage(null, ...) finds no page
         /\ UNCHANGED dbVars
         /\ last' = CallR("updatePage", Null, FALSE)
    ELSE updatePage(appState.activePage[1],
                    IF f.field = "title" THEN [title |-> editor[1].title]
                                         ELSE [content |-> editor[1].content])

\* a click on an item of the page list, which shows the pages of the active section
SelectPage ==
  /\ \E pg \in { x \in items(data.pages) : <<x.sectionId>> = appState.activeSection } :
       /\ selectPage(pg.id)
       /\ last' = Call("selectPage", pg.id)
  /\ UNCHANGED <<mapVars, dbVars, geo, hexVars, editorTimeout, cacheVars>>

\* the user types into the title or the content input
PageTextInput ==
  /\ editor # Null
  /\ \E field \in {"title", "content"} :
       \E v \in PageTexts \ {editor[1][field]} :
         /\ editor' = [editor EXCEPT ![1][field] = v]
         /\ onPageTextChange(field, v)
         /\ last' = Call("pageTextInput", <<field, v>>)
  /\ UNCHANGED <<mapVars, dbVars, geo, hexVars, appState, cacheVars>>

\* 500 ms after the latest input event the pending closure runs
EditorTimer ==
  /\ editorTimeout # Null
  /\ editorWrite(editorTimeout[1])
  /\ editorTimeout' = Null
  /\ UNCHANGED <<mapVars, geo, hexVars, appState, editor, cacheVars>>

\* the store of an editing session on the lorebook tab: two pages in one section
PageStores ==
  { [meta |-> <<[name |-> "Ourotus"]>>, biomes |-> <<plains>>, hexmap |-> Null,
     notebooks |-> <<Notebook("nb1")>>,
     sections |-> <<Section("s1", "nb1")>>,
     pages |-> <<Page("p1", "s1"), Page("p2", "s1")>>,
     celestial |-> << >>] }

\* after App.init: selectNotebook of the first notebook has selected its first
\* section and that section's first page
InitPages ==
  /\ InitMap
  /\ data \in PageStores
  /\ status = [synced |-> TRUE, pendingChanges |-> {}]
  /\ autoSaveTimeout = FALSE
  /\ panel = Null
  /\ hexEditTimeout = Null
  /\ appState = [activeNotebook |-> <<"nb1">>, activeSection |-> <<"s1">>,
                 activePage |-> <<"p1">>]
  /\ editor = <<[title |-> data.pages[1].title, content |-> data.pages[1].content]>>
  /\ editorTimeout = Null
  /\ cache = cacheOf(data)
  /\ saves = [i \in 1 .. MaxSaves |-> Null]
  /\ fuel = [ev |-> 0, btn |-> 0]
  /\ last = Call("init", Null)
  /\ geo = Call("none", Null)

NextPages ==
  \/ SelectPage
  \/ PageTextInput
  \/ EditorTimer

SpecPages == InitPages /\ [][NextPages]_vars

----------------------------------------------------------------------------
(* DB.saveAllToCache and the cache.  A call runs up to its next await,     *)
(* where it has made one request (a put or a clear) and waits for it.  The *)
(* requests made on one object store are served in the order they were     *)
(* made; a request takes effect when it is served, and the call that       *)
(* awaits it goes on from there.  Mutations of DB.data happen between the  *)
(* awaits of the calls in progress.                                        *)

\* mutations of DB.data and presses of the save button in one session
SaveEdits == 2
SaveClicks == 1

\* IDBObjectStore.put: the record replaces the one with the same key
cachePut(c, table, item) ==
  IF table \in {"meta", "hexmap"}
    THEN [c EXCEPT ![table] = <<item>>]
    ELSE [c EXCEPT ![table] = { x \in @ : x.id # item.id } \cup {item}]

\* IDBObjectStore.clear
cacheClear(c, table) == [c EXCEPT ![table] = {}]

Req(kind, table, item) == [kind |-> kind, table |-> table, item |-> item]

\* the effect of a served request
applyReq(c, op) ==
  IF op.kind = "put" THEN cachePut(c, op.table, op.item) ELSE cacheClear(c, op.table)

\* no array iterator
NoIter == [live |-> TRUE, old |-> << >>, idx |-> 0]

\* saveAllToCache at the head of the loop over the array tables, at table k:
\* the clear of the table, or Null when the loop is over
clearOf(k) ==
  IF k > Len(ArrayTables) THEN Null
  ELSE <<[op |-> Req("clear", ArrayTables[k], Null), ti |-> k, iter |-> NoIter]>>

\* saveAllToCache at `if (this.data.hexmap)`
fromHexmap ==
  IF data.hexmap # Null
    THEN <<[op |-> Req("put", "hexmap", singleton("hexmap", data.hexmap[1])),
            ti |-> 0, iter |-> NoIter]>>
    ELSE clearOf(1)

\* saveAllToCache from its first line, `if (this.data.meta)`
fromMeta ==
  IF data.meta # Null
    THEN <<[op |-> Req("put", "meta", singleton("meta", data.meta[1])),
            ti |-> 0, iter |-> NoIter]>>
    ELSE fromHexmap

\* `for (const item of this.data[table])` at the iterator's next(): a live
\* iterator reads the array DB.data holds now, an iterator over an array that
\* DB.data no longer holds reads that old array
fromItems(k, it) ==
  LET arr == IF it.live THEN data[ArrayTables[k]] ELSE it.old
  IN  IF it.idx <= Len(arr)
        THEN <<[op |-> Req("put", ArrayTables[k], arr[it.idx]), ti |-> k,
                iter |-> [it EXCEPT !.idx = @ + 1]]>>
        ELSE clearOf(k + 1)

\* saveAllToCache going on after the request it awaited has succeeded
resume(p) ==
  CASE p.op.table = "meta"   -> fromHexmap
    [] p.op.table = "hexmap" -> clearOf(1)
    [] p.op.kind = "clear"   -> fromItems(p.ti, [live |-> TRUE, old |-> << >>, idx |-> 1])
    [] OTHER                 -> fromItems(p.ti, p.iter)

Slots == 1 .. MaxSaves

\* the calls, other than i, that wait for a request on the object store
ahead(i, table) ==
  { j \in Slots \ {i} : saves[j] # Null /\ saves[j][1].op.table = table }

\* call i has made request n and awaits it; the request the call awaited
\* before, if any, is no longer ahead of the others
awaiting(i, n) ==
  [j \in Slots |->
     IF j = i
       THEN (IF n = Null THEN Null
             ELSE <<[op |-> n[1].op, ti |-> n[1].ti, iter |-> n[1].iter,
                     after |-> ahead(i, n[1].op.table)]>>)
       ELSE IF saves[j] = Null THEN Null
       ELSE <<[saves[j][1] EXCEPT !.after = @ \ {i}]>>]

freeSlot == CHOOSE i \in Slots : saves[i] = Null /\ \A j \in Slots : saves[j] = Null => i <= j

\* a call of DB.saveAllToCache, up to its first await
startSave ==
  /\ \E i \in Slots : saves[i] = Null
  /\ saves' = awaiting(freeSlot, fromMeta)
  /\ UNCHANGED <<data, status, cache>>

\* saveAllToCache whose last lines leave the pending changes in place
saveAwait_keepsPending(i) ==
  LET p == saves[i][1]
      n == resume(p)
  IN  /\ p.after = {}
      /\ cache' = applyReq(cache, p.op)
      /\ saves' = awaiting(i, n)
      /\ IF n = Null
           THEN /\ status' = [status EXCEPT !.synced = TRUE]
                /\ last' = CallR("saveAllToCache", "", TRUE)
           ELSE /\ UNCHANGED status
                /\ last' = CallR(p.op.kind, p.op.table, TRUE)

\* the request call i awaits is served and succeeds: saveAllToCache goes on to
\* its next await, or to its end
saveAwait(i) ==
  LET p == saves[i][1]
      n == resume(p)
  IN  /\ p.after = {}
      /\ cache' = applyReq(cache, p.op)
      /\ saves' = awaiting(i, n)
      /\ IF n = Null
           THEN /\ status' = [synced |-> TRUE, pendingChanges |-> {}]
                /\ last' = CallR("saveAllToCache", "", TRUE)
           ELSE /\ UNCHANGED status
                /\ last' = CallR(p.op.kind, p.op.table, TRUE)

\* the request call i awaits fails: the catch of saveAllToCache
saveCatch(i) ==
  LET p == saves[i][1]
  IN  /\ p.after = {}
      /\ saves' = awaiting(i, Null)
      /\ UNCHANGED <<status, cache>>
      /\ last' = CallR("saveAllToCache", "", FALSE)

\* DB.data[t] for t in tables is replaced by a new array: the iterators of the
\* calls in progress stay on the old one
replaced(tables) ==
  [j \in Slots |->
     IF saves[j] = Null THEN Null
     ELSE LET p == saves[j][1]
          IN  IF p.op.kind = "put" /\ p.ti > 0 /\ p.op.table \in tables /\ p.iter.live
                THEN <<[p EXCEPT !.iter = [live |-> FALSE, old |-> data[p.op.table],
                                           idx |-> p.iter.idx]]>>
                ELSE saves[j]]

saveOnly ==
  UNCHANGED <<container, canvas, view, state, onHexSelect, selects, lastSelect, threw,
              onHexHover, lastHover, drawn, touches, pointer, grabbed, geo, hexVars,
              pageVars>>

\* the callback of the timer set by scheduleAutoSave
AutoSave ==
  /\ autoSaveTimeout = TRUE
  /\ startSave
  /\ autoSaveTimeout' = FALSE
  /\ last' = Call("autoSave", "")
  /\ UNCHANGED fuel
  /\ saveOnly

\* App.saveToCache
SaveToCache ==
  /\ fuel.btn > 0
  /\ startSave
  /\ fuel' = [fuel EXCEPT !.btn = @ - 1]
  /\ last' = Call("saveToCache", "")
  /\ UNCHANGED autoSaveTimeout
  /\ saveOnly

SaveAwait ==
  /\ \E i \in Slots : saves[i] # Null /\ saveAwait(i)
  /\ UNCHANGED <<data, autoSaveTimeout, fuel>>
  /\ saveOnly

SaveCatch ==
  /\ \E i \in Slots : saves[i] # Null /\ saveCatch(i)
  /\ UNCHANGED <<data, autoSaveTimeout, fuel>>
  /\ saveOnly

\* a page is edited while calls of saveAllToCache may be in progress
PageUpdated ==
  /\ fuel.ev > 0
  /\ \E id \in {"p1", "p2"} : updatePage(id, [title |-> "Lore"])
  /\ fuel' = [fuel EXCEPT !.ev = @ - 1]
  /\ UNCHANGED <<cacheVars>>
  /\ saveOnly

PageDeleted ==
  /\ fuel.ev > 0
  /\ \E id \in {"p1", "p2"} : deletePage(id)
  /\ fuel' = [fuel EXCEPT !.ev = @ - 1]
  /\ UNCHANGED <<cacheVars>>
  /\ saveOnly

NotebookDeleted ==
  /\ fuel.ev > 0
  /\ deleteNotebook("nb1")
  /\ saves' = IF last'.ret THEN replaced({"pages", "sections"}) ELSE saves
  /\ fuel' = [fuel EXCEPT !.ev = @ - 1]
  /\ UNCHANGED cache
  /\ saveOnly

\* after DB.init: loadFromCache has read the cache into DB.data
InitSave ==
  /\ InitMap
  /\ data \in PageStores
  /\ status = [synced |-> TRUE, pendingChanges |-> {}]
  /\ autoSaveTimeout = FALSE
  /\ InitApp
  /\ fuel = [ev |-> SaveEdits, btn |-> SaveClicks]
  /\ last = Call("init", "")
  /\ geo = Call("none", Null)

\* the cache serves every request
NextSaveOk ==
  \/ AutoSave
  \/ SaveToCache
  \/ SaveAwait
  \/ PageUpdated
  \/ PageDeleted
  \/ NotebookDeleted

NextSave ==
  \/ NextSaveOk
  \/ SaveCatch

SpecSave == InitSave /\ [][NextSave]_vars

\* sessions in which the cache serves every request
SpecSaveOk == InitSave /\ [][NextSaveOk]_vars

\* timers fire and requests are served
SpecSaveLive ==
  InitSave /\ [][NextSaveOk]_vars /\ WF_vars(AutoSave) /\ WF_vars(SaveAwait)

----------------------------------------------------------------------------
(* The pure geometry functions, applied to bounded inputs *)

\* fractional axial coordinates i / FracDen for |i| <= MaxFrac
FracDen == 12
MaxFrac == 18
Fractions == { Rat(i, FracDen) : i \in -MaxFrac .. MaxFrac }
\* integer hex coordinates
MaxCoord == 3
Coords == -MaxCoord .. MaxCoord
\* views: zoom within [minZoom, maxZoom], any offsets
GeomZooms == { minZoom, Rat(5, 6), Num(1), Rat(99, 100), Rat(36, 25), maxZoom }
GeomOffsets == { <<Num(0), Num(0)>>, <<Num(-50), <<300, -225, 1>>>>,
                 <<Rat(7, 2), Rat(-13, 3)>> }
GeomViews == { [offsetX |-> o[1], offsetY |-> o[2], zoom |-> z] :
               o \in GeomOffsets, z \in GeomZooms }

\* the viewport transform render applies: ctx.translate(offset), ctx.scale(zoom)
toScreen(v, p) ==
  <<Add(Mul(p[1], v.zoom), v.offsetX), Add(Mul(p[2], v.zoom), v.offsetY)>>

ApplyRoundHex ==
  /\ geo.op = "none"
  /\ \E q \in Fractions, r \in Fractions :
       geo' = CallR("roundHex", <<q, r>>, roundHex(q, r))
  /\ UNCHANGED <<mapVars, dbVars, last, appVars>>

ApplyRoundTrip ==
  /\ geo.op = "none"
  /\ \E q \in Coords, r \in Coords, v \in GeomViews :
       LET s == toScreen(v, hexToPixel(q, r))
       IN  geo' = CallR("roundTrip", <<q, r, v>>, pixelToHex(v, s[1], s[2]))
  /\ UNCHANGED <<mapVars, dbVars, last, appVars>>

\* store contents and interaction states render is applied to
RenderHexes ==
  { [q |-> 0, r |-> 0, biomeId |-> "forest", label |-> "", notes |-> ""],
    [q |-> 1, r |-> 0, biomeId |-> "plains", label |-> "Keep", notes |-> ""],
    [q |-> 0, r |-> 1, biomeId |-> "swamp", label |-> "Inn", notes |-> "x"] }
RenderHexLists ==
  { << >> } \cup { <<h>> : h \in RenderHexes }
            \cup { p \in RenderHexes \X RenderHexes : p[1] # p[2] }
RenderMarkerLists ==
  { << >>, <<[q |-> 0, r |-> 0, icon |-> "tower"]>>,
    <<[q |-> 2, r |-> 2, icon |-> "cave"], [q |-> 1, r |-> 0, icon |-> "ship"]>> }
RenderHighlights == { Null, <<0, 0>>, <<1, 0>> }

ApplyRender ==
  /\ geo.op = "none"
  /\ \E hs \in RenderHexLists, ms \in RenderMarkerLists,
        hov \in RenderHighlights, sel \in RenderHighlights :
       LET d  == [biomes |-> <<plains, forest>>,
                  hexmap |-> <<[settings |-> defaultSettings, hexes |-> hs,
                                markers |-> ms]>>]
           st == [state EXCEPT !.hoveredHex = hov, !.selectedHex = sel]
       IN  geo' = CallR("render", <<d, st>>, render(CHOOSE cv \in Sizes : TRUE, d, st))
  /\ UNCHANGED <<mapVars, dbVars, last, appVars>>

NextGeom ==
  \/ ApplyRoundHex
  \/ ApplyRoundTrip
  \/ ApplyRender

SpecGeom == Init /\ [][NextGeom]_vars

----------------------------------------------------------------------------
(* Claims *)


\* C1: a click that ends a gesture with pointer movement between mousedown and
\* mouseup does not invoke onHexSelect and leaves state.selectedHex unchanged.
C1_DragReleaseDoesNotSelect ==
  [][(last'.op = "click" /\ pointer.moved)
       => (selects' = selects /\ state'.selectedHex = state.selectedHex)]_vars

\* C2: a click that ends a mousedown/mouseup gesture without pointer movement
\* invokes onHexSelect exactly once, with the hex pixelToHex returns for the
\* pointer position, and selectedHex becomes that hex.
C2_ClickSelects ==
  [][(last'.op = "click" /\ ~pointer.moved)
       => LET p   == canvasPoint(pointer.pos)
              hex == pixelToHex(view, p[1], p[2])
          IN  /\ selects' = selects + 1
              /\ lastSelect'[1] = hex
              /\ state'.selectedHex = hex]_vars

C2_Witness ==
  /\ last.op = "click"
  /\ ~pointer.moved
  /\ selects = 1
  /\ state.selectedHex # Null
  /\ lastSelect[1] = state.selectedHex

\* C3: in every reachable state minZoom <= view.zoom <= maxZoom.
C3_ZoomBounds == Leq(minZoom, view.zoom) /\ Leq(view.zoom, maxZoom)

\* a wheel event whose zoom was clamped at maxZoom (the offsets moved, so the
\* zoom did change), or a zoom-out press clamped at minZoom
C3_Witness ==
  /\ last.op = "wheel"
  /\ last.arg < 0
  /\ view.zoom = maxZoom
  /\ view.offsetX # centerOffsets(canvas, Num(1))[1]
  /\ ~state.isDragging

\* C4: a wheel event at canvas point P keeps the world point under P: the world
\* point W = (P - offset) / zoom before the event has W * zoom' + offset' = P.
C4_WheelAnchor ==
  [][(last'.op = "wheel")
       => LET P == canvasPoint(pointer.pos)
          IN  toScreen(view', toWorld(view, P)) = P]_vars

\* a wheel event whose new zoom was clamped at maxZoom from a smaller zoom
C4_Witness ==
  /\ last.op = "wheel"
  /\ last.arg < 0
  /\ view.zoom = maxZoom
  /\ state.viewStart = <<Num(0), Num(0)>>
  /\ view.offsetX # centerOffsets(canvas, Num(1))[1]

\* C5: zoomIn and zoomOut keep the world point shown at the canvas center
\* (canvas.width / 2, canvas.height / 2) at the canvas center.
C5_ButtonZoomAnchoredAtCenter ==
  [][(last'.op \in {"zoomIn", "zoomOut"} /\ canvas # Null)
       => LET c == <<Rat(canvas[1], 2), Rat(canvas[2], 2)>>
          IN  toScreen(view', toWorld(view, c)) = c]_vars

\* C6: after init found no container, no public method throws, and the view
\* and the interaction state stay as they were.
C6_MissingContainerNoOp ==
  (container = "missing")
    => /\ ~threw
       /\ view = [offsetX |-> Num(0), offsetY |-> Num(0), zoom |-> Num(1)]
       /\ state = [isDragging |-> FALSE, dragStart |-> <<0, 0>>,
                   viewStart |-> <<Num(0), Num(0)>>,
                   selectedHex |-> Null, hoveredHex |-> Null]

\* C7: deleteBiome(id) returns false and changes neither the biomes nor the
\* sync status when a hex record has biomeId = id; when no hex record has it and
\* a biome with the id exists, it returns true and the biomes are the previous
\* list without one biome of that id, the others kept in order.
C7_DeleteBiome ==
  [][(last'.op = "deleteBiome")
       => LET id == last'.arg
              bs == data.biomes
          IN  IF usedByHex(id)
                THEN /\ last'.ret = FALSE
                     /\ data' = data
                     /\ status' = status
                     /\ autoSaveTimeout' = autoSaveTimeout
                ELSE (\E i \in 1 .. Len(bs) : bs[i].id = id)
                       => /\ last'.ret = TRUE
                          /\ Len(data'.biomes) = Len(bs) - 1
                          /\ \E i \in 1 .. Len(bs) :
                               /\ bs[i].id = id
                               /\ \A j \in 1 .. Len(bs) - 1 :
                                    data'.biomes[j] = IF j < i THEN bs[j] ELSE bs[j + 1]]_vars

\* a rejected delete of a biome a hex record uses
C7_Witness ==
  /\ last.op = "deleteBiome"
  /\ last.ret = FALSE
  /\ usedByHex(last.arg)
  /\ \E i \in 1 .. Len(data.biomes) : data.biomes[i].id = last.arg

\* C8: every hex record's biomeId names a biome in DB.data.biomes.
C8_NoDanglingBiomeId ==
  (data.hexmap # Null)
    => \A i \in 1 .. Len(data.hexmap[1].hexes) :
         \E j \in 1 .. Len(data.biomes) :
           data.biomes[j].id = data.hexmap[1].hexes[i].biomeId

\* the rounded coordinates and rounding errors of a fractional point
roundedOf(x) == MathRound(x)
errorOf(x) == MathAbs(Sub(Num(MathRound(x)), x))

\* C9 as claimed: q is recomputed only when its error is strictly the greatest,
\* r only when its error is strictly the greatest, and otherwise the result is
\* (round(qf), round(rf)).
C9_TieBreakStrict ==
  (geo.op = "roundHex")
    => LET q  == geo.arg[1]
           r  == geo.arg[2]
           s  == Sub(Neg(q), r)
           eq == errorOf(q)
           er == errorOf(r)
           es == errorOf(s)
       IN  geo.ret =
             IF Gt(eq, er) /\ Gt(eq, es) THEN <<-roundedOf(r) - roundedOf(s), roundedOf(r)>>
             ELSE IF Gt(er, eq) /\ Gt(er, es) THEN <<roundedOf(q), -roundedOf(q) - roundedOf(s)>>
             ELSE <<roundedOf(q), roundedOf(r)>>

\* C9 amended: q is recomputed only when its error is strictly the greatest; r is
\* recomputed when its error is strictly greater than the s error and at least
\* the q error (ties between the q and r errors recompute r); otherwise the
\* result is (round(qf), round(rf)).
C9_TieBreak ==
  (geo.op = "roundHex")
    => LET q  == geo.arg[1]
           r  == geo.arg[2]
           s  == Sub(Neg(q), r)
           eq == errorOf(q)
           er == errorOf(r)
           es == errorOf(s)
       IN  geo.ret =
             IF Gt(eq, er) /\ Gt(eq, es) THEN <<-roundedOf(r) - roundedOf(s), roundedOf(r)>>
             ELSE IF Leq(eq, er) /\ Gt(er, es) THEN <<roundedOf(q), -roundedOf(q) - roundedOf(s)>>
             ELSE <<roundedOf(q), roundedOf(r)>>

\* a tie between the q and r errors above the s error, where r was recomputed
C9_Witness ==
  /\ geo.op = "roundHex"
  /\ errorOf(geo.arg[1]) = errorOf(geo.arg[2])
  /\ Gt(errorOf(geo.arg[2]), errorOf(Sub(Neg(geo.arg[1]), geo.arg[2])))
  /\ geo.ret[2] # roundedOf(geo.arg[2])

\* C10: the screen position of the center of hex (q, r) in any view maps back to
\* (q, r) under pixelToHex.
C10_RoundTrip ==
  (geo.op = "roundTrip") => geo.ret = <<geo.arg[1], geo.arg[2]>>

C10_Witness ==
  /\ geo.op = "roundTrip"
  /\ geo.arg[1] = 2 /\ geo.arg[2] = -1
  /\ geo.arg[3].zoom = maxZoom
  /\ geo.arg[3].offsetY = <<300, -225, 1>>
  /\ geo.ret = <<2, -1>>

\* the six neighbours of a hex in axial coordinates
Directions == { <<1, 0>>, <<1, -1>>, <<0, -1>>, <<-1, 0>>, <<-1, 1>>, <<0, 1>> }

\* cube distance between a fractional point and a hex: max(|dq|, |dr|, |ds|),
\* which equals (|dq| + |dr| + |ds|) / 2 because dq + dr + ds = 0
cubeDistance(q, r, c) ==
  LET dq == Sub(q, Num(c[1]))
      dr == Sub(r, Num(c[2]))
  IN  MathMax(MathAbs(dq), MathMax(MathAbs(dr), MathAbs(Add(dq, dr))))

\* squared Euclidean distance between the centers, in units of 3 * size^2:
\* dq^2 + dq * dr + dr^2
centerDistance2(q, r, c) ==
  LET dq == Sub(q, Num(c[1]))
      dr == Sub(r, Num(c[2]))
  IN  Add(Mul(dq, dq), Add(Mul(dq, dr), Mul(dr, dr)))

\* C11: no neighbour of the hex roundHex returns is strictly nearer to the
\* fractional point than the returned hex, in cube distance and in the
\* distance between centers (the returned hex is the Voronoi cell of the point).
C11_NearestCell ==
  (geo.op = "roundHex")
    => LET q == geo.arg[1]
           r == geo.arg[2]
           c == geo.ret
       IN  \A n \in Directions :
             LET m == <<c[1] + n[1], c[2] + n[2]>>
             IN  /\ ~Lt(cubeDistance(q, r, m), cubeDistance(q, r, c))
                 /\ ~Lt(centerDistance2(q, r, m), centerDistance2(q, r, c))

\* a point whose plain rounding (round(qf), round(rf)) is strictly farther than
\* the hex roundHex returned after recomputing a coordinate
C11_Witness ==
  /\ geo.op = "roundHex"
  /\ geo.ret # <<roundedOf(geo.arg[1]), roundedOf(geo.arg[2])>>
  /\ Lt(cubeDistance(geo.arg[1], geo.arg[2], geo.ret),
        cubeDistance(geo.arg[1], geo.arg[2],
                     <<roundedOf(geo.arg[1]), roundedOf(geo.arg[2])>>))

\* C12: with map bounds 20 x 15, hex size 30 and zoom 1, right after centerView
\* (run by init and by resetView) the screen position of the center of hex
\* (0, 0) is within half a hex width (30 px) of the canvas center.
C12_OriginNearCenter ==
  (/\ last.op \in {"init", "resetView"}
   /\ canvas # Null
   /\ data.hexmap # Null
   /\ data.hexmap[1].settings = [width |-> 20, height |-> 15]
   /\ view.zoom = Num(1))
    => LET o  == toScreen(view, hexToPixel(0, 0))
           dx == MathAbs(Sub(o[1], Rat(canvas[1], 2)))
           dy == MathAbs(Sub(o[2], Rat(canvas[2], 2)))
       IN  /\ Leq(dx, Rat(hexSize * 2, 2))
           /\ Leq(dy, Rat(hexSize * 2, 2))

\* C13: resetView sets the zoom to 1 whatever the view was, sets the offsets to
\* the ones centerView computes at zoom 1 for the current canvas and map
\* bounds, and a resetView right after a resetView leaves the view as it is.
C13_ResetView ==
  [][(last'.op = "resetView")
       => /\ view'.zoom = Num(1)
          /\ (canvas # Null)
               => <<view'.offsetX, view'.offsetY>> = centerOffsets(canvas, Num(1))
          /\ (last.op = "resetView") => view' = view]_vars

\* a resetView after a zoom button and a drag had changed zoom and offsets
C13_Witness ==
  /\ last.op = "resetView"
  /\ canvas # Null
  /\ fuel.btn < MaxBtn
  /\ fuel.ev <= MaxEvents - 2
  /\ state.dragStart # <<0, 0>>
  /\ state.hoveredHex # Null
  /\ view = [offsetX |-> centerOffsets(canvas, Num(1))[1],
             offsetY |-> centerOffsets(canvas, Num(1))[2], zoom |-> Num(1)]

\* C14: mouseup, mouseleave and touchend leave isDragging false and change
\* neither the offsets, the zoom, hoveredHex nor selectedHex.
C14_PointerUpEndsDrag ==
  [][(last'.op \in {"mouseup", "mouseleave", "touchend"})
       => /\ ~state'.isDragging
          /\ view' = view
          /\ state'.hoveredHex = state.hoveredHex
          /\ state'.selectedHex = state.selectedHex]_vars

\* a finger lifted in the middle of a gesture: the view was panned by a touch
\* drag and another finger is still on the canvas
C14_Witness ==
  /\ last.op = "touchend"
  /\ touches = 1
  /\ ~state.isDragging
  /\ <<view.offsetX, view.offsetY>> # state.viewStart

\* C15: mousedown leaves the view alone and records the pointer position and
\* the offsets; a mousemove while isDragging sets the offsets to the recorded
\* offsets plus (pointer position - recorded position), keeps the zoom and
\* keeps what was recorded.
C15_DragPan ==
  [][/\ (last'.op = "mousedown")
          => /\ view' = view
             /\ state'.dragStart = pointer.pos
             /\ state'.viewStart = <<view.offsetX, view.offsetY>>
     /\ (last'.op = "mousemove" /\ state.isDragging)
          => /\ view'.offsetX
                  = Add(state.viewStart[1], Num(pointer'.pos[1] - state.dragStart[1]))
             /\ view'.offsetY
                  = Add(state.viewStart[2], Num(pointer'.pos[2] - state.dragStart[2]))
             /\ view'.zoom = view.zoom
             /\ state'.dragStart = state.dragStart
             /\ state'.viewStart = state.viewStart]_vars

\* a drag move at a zoom other than 1 that moved the offsets by the pointer
\* movement
C15_Witness ==
  /\ last.op = "mousemove"
  /\ state.isDragging
  /\ pointer.down
  /\ view.zoom # Num(1)
  /\ pointer.pos # state.dragStart
  /\ view.offsetX = Add(state.viewStart[1], Num(pointer.pos[1] - state.dragStart[1]))

\* C16: a mousemove while not dragging sets hoveredHex to the hex under the
\* pointer, and renders and (with a callback registered) invokes onHexHover
\* with that hex exactly when the hex differs from the one hovered before; a
\* mousemove while dragging leaves hoveredHex alone and invokes no onHexHover.
C16_HoverTracking ==
  [][(last'.op = "mousemove")
       => LET p   == canvasPoint(pointer'.pos)
              hex == pixelToHex(view, p[1], p[2])
          IN  IF state.isDragging
                THEN /\ state'.hoveredHex = state.hoveredHex
                     /\ lastHover' = Null
                ELSE /\ state'.hoveredHex = hex
                     /\ (drawn' # Null) <=> (hex # state.hoveredHex)
                     /\ (lastHover' # Null) <=> (onHexHover /\ hex # state.hoveredHex)
                     /\ (lastHover' # Null) => lastHover'[1] = hex]_vars

\* a hover move that stays on the hovered hex: no render, no callback
C16_Witness ==
  /\ last.op = "mousemove"
  /\ ~state.isDragging
  /\ onHexHover
  /\ state.hoveredHex # Null
  /\ drawn = Null
  /\ lastHover = Null

\* C17: only click and selectHex change selectedHex, and once set it is never
\* null again.
C17_SelectionPersists ==
  [][/\ (state'.selectedHex # state.selectedHex) => last'.op \in {"click", "selectHex"}
     /\ (state.selectedHex # Null) => state'.selectedHex # Null]_vars

\* a selection made by a click is still there after a later wheel event
C17_Witness ==
  /\ state.selectedHex # Null
  /\ selects = 1
  /\ fuel.btn = MaxBtn
  /\ last.op = "wheel"
  /\ view.zoom # Num(1)

C18_WitnessNull ==
  /\ last.op = "click"
  /\ lastSelect # Null
  /\ lastSelect[1] # <<11, 3>>
  /\ lastSelect[2] = Null

\* the indices of the records of hs at coordinate c
recordsAt(hs, c) == { i \in 1 .. Len(hs) : hs[i].q = c[1] /\ hs[i].r = c[2] }

\* C19: the store never holds two records of one (q, r); updateHex on a
\* coordinate without a record appends one record, which is the default record
\* (biome 'plains', empty label and notes) with the given field applied, and
\* updateHex on a coordinate with a record adds none; in both cases every other
\* record stays as it was.
C19_HexIdentity ==
  [][/\ (data'.hexmap # Null)
          => \A i, j \in 1 .. Len(data'.hexmap[1].hexes) :
               (/\ data'.hexmap[1].hexes[i].q = data'.hexmap[1].hexes[j].q
                /\ data'.hexmap[1].hexes[i].r = data'.hexmap[1].hexes[j].r) => i = j
     /\ (last'.op = "updateHex" /\ data.hexmap # Null)
          => LET old == data.hexmap[1].hexes
                 new == data'.hexmap[1].hexes
                 c   == last'.arg
                 def == [q |-> c[1], r |-> c[2], biomeId |-> "plains",
                         label |-> "", notes |-> ""]
             IN  IF recordsAt(old, c) = {}
                   THEN /\ Len(new) = Len(old) + 1
                        /\ \A i \in 1 .. Len(old) : new[i] = old[i]
                        /\ new[Len(new)].q = c[1] /\ new[Len(new)].r = c[2]
                        /\ Cardinality({ f \in {"biomeId", "label", "notes"} :
                                           new[Len(new)][f] # def[f] }) <= 1
                   ELSE /\ Len(new) = Len(old)
                        /\ \A i \in 1 .. Len(old) :
                             IF i \in recordsAt(old, c)
                               THEN new[i].q = c[1] /\ new[i].r = c[2]
                               ELSE new[i] = old[i]]_vars

\* a record was added at (1, 0) with its label set, then its notes were set
\* without adding a record
C19_Witness ==
  /\ last.op = "updateHex"
  /\ last.arg = <<1, 0>>
  /\ data.hexmap # Null
  /\ Len(data.hexmap[1].hexes) = 2
  /\ data.hexmap[1].hexes[2] = [q |-> 1, r |-> 0, biomeId |-> "plains",
                                label |-> "keep", notes |-> "keep"]

\* the place of a drawing call in the order background, hexes, hover
\* highlight, selection highlight, labels, markers
layer(c) ==
  IF c.fn \in {"fillRect", "drawBackground"} THEN 0
  ELSE IF c.fn = "drawHex" THEN 1
  ELSE IF c.fn = "drawHexHighlight" /\ c.arg = "hover" THEN 2
  ELSE IF c.fn = "drawHexHighlight" THEN 3
  ELSE IF c.fn = "drawHexLabel" THEN 4
  ELSE 5

\* C20: the drawing calls of a render pass come in the order background, hex
\* records, hover highlight, selection highlight, labels, markers: no hex is
\* drawn after a highlight, the selection highlight comes after the hover
\* highlight, no label or marker comes before a highlight; every hex record and
\* every marker is drawn once.
C20_RenderOrder ==
  (geo.op = "render")
    => LET ops == geo.ret
           d   == geo.arg[1]
           st  == geo.arg[2]
           count(fn) == Cardinality({ i \in 1 .. Len(ops) : ops[i].fn = fn })
       IN  /\ \A i, j \in 1 .. Len(ops) : (i < j) => layer(ops[i]) <= layer(ops[j])
           /\ ops[1].fn = "fillRect" /\ ops[2].fn = "drawBackground"
           /\ count("drawHex") = Len(d.hexmap[1].hexes)
           /\ count("drawMarker") = Len(d.hexmap[1].markers)
           /\ count("drawHexHighlight")
                = (IF st.hoveredHex # Null THEN 1 ELSE 0)
                  + (IF st.selectedHex # Null THEN 1 ELSE 0)

\* a pass that drew two hexes, both highlights, a label and a marker
C20_Witness ==
  /\ geo.op = "render"
  /\ \E i, j, k, l, m \in 1 .. Len(geo.ret) :
       /\ i < j /\ j < k /\ k < l /\ l < m
       /\ geo.ret[i].fn = "drawHex"
       /\ geo.ret[j].fn = "drawHexHighlight" /\ geo.ret[j].arg = "hover"
       /\ geo.ret[k].fn = "drawHexHighlight" /\ geo.ret[k].arg = "selection"
       /\ geo.ret[l].fn = "drawHexLabel"
       /\ geo.ret[m].fn = "drawMarker"
  /\ Len(geo.arg[1].hexmap[1].hexes) = 2

\* the drawHex calls of a pass, in the order they were made
hexCalls(ops) == SelectSeq(ops, LAMBDA c : c.fn = "drawHex")

\* C21: render draws exactly one hexagon for every hex record of the store, in
\* store order and at the record's coordinates; a record whose biomeId names no
\* biome of the store is filled with '#333' and gets no pattern overlay, a
\* record of a known biome is filled with that biome's color; the pass runs to
\* its end (the markers, drawn last, are all there).
C21_MissingBiomeDrawn ==
  (geo.op = "render")
    => LET hs    == geo.arg[1].hexmap[1].hexes
           bs    == geo.arg[1].biomes
           calls == hexCalls(geo.ret)
       IN  /\ Len(calls) = Len(hs)
           /\ \A i \in 1 .. Len(hs) :
                /\ calls[i].at = <<hs[i].q, hs[i].r>>
                /\ IF \E j \in 1 .. Len(bs) : bs[j].id = hs[i].biomeId
                     THEN \E j \in 1 .. Len(bs) :
                            /\ bs[j].id = hs[i].biomeId
                            /\ calls[i].arg.fill = bs[j].color
                     ELSE calls[i].arg = [fill |-> "#333", overlay |-> "none"]
           /\ Cardinality({ i \in 1 .. Len(geo.ret) : geo.ret[i].fn = "drawMarker" })
                = Len(geo.arg[1].hexmap[1].markers)

\* a pass over two records, the second of a biome the store does not have,
\* the first of a biome with a pattern
C21_Witness ==
  /\ geo.op = "render"
  /\ Len(geo.arg[1].hexmap[1].hexes) = 2
  /\ geo.arg[1].hexmap[1].hexes[2].biomeId = "swamp"
  /\ hexCalls(geo.ret)[2].arg.fill = "#333"
  /\ hexCalls(geo.ret)[1].arg = [fill |-> "#2e7d32", overlay |-> "trees"]
  /\ Len(geo.arg[1].hexmap[1].markers) = 2

\* C22: during a mouse drag the world point that was under the pointer at
\* mousedown is under the pointer after every mousemove, whatever wheel events,
\* zoom buttons or view resets came between the mousedown and the mousemove.
C22_DragKeepsGrabbedPoint ==
  [][(last'.op = "mousemove" /\ state.isDragging /\ pointer.down /\ grabbed # Null)
       => toWorld(view', canvasPoint(pointer'.pos)) = grabbed]_vars

\* the coordinates of the hex records of DB.data d
recordCoords(d) ==
  IF d.hexmap = Null THEN {}
  ELSE { <<d.hexmap[1].hexes[i].q, d.hexmap[1].hexes[i].r>> :
           i \in 1 .. Len(d.hexmap[1].hexes) }

\* C23: when the timer of a debounced label or notes edit runs, no record of
\* another hex than the one whose form the text was typed into is created or
\* changed (the edit goes to that hex or is dropped).
C23_EditStaysWithItsHex ==
  [][(hexEditTimeout # Null /\ hexEditTimeout' = Null)
       => \A c \in (recordCoords(data) \cup recordCoords(data')) \ {hexEditTimeout[1].hex} :
            getHex(c[1], c[2])' = getHex(c[1], c[2])]_vars

\* C24: when the timer of a debounced edit runs and the form has not been
\* rendered anew since the text was typed, the record of the form's hex holds
\* the label and the notes the form shows: neither of two edits typed within
\* the debounce delay is lost.
C24_BothEditsWritten ==
  [][(/\ hexEditTimeout # Null /\ hexEditTimeout' = Null
      /\ panel # Null
      /\ hexEditTimeout[1].form = panel[1].form
      /\ state.selectedHex = panel[1].hex)
       => LET rec == getHex(panel[1].hex[1], panel[1].hex[2])'
          IN  /\ rec # Null
              /\ rec[1].label = panel[1].label
              /\ rec[1].notes = panel[1].notes]_vars

\* the sections of notebook nb and the pages of the sections secs in DB.data d
sectionsOf(d, nb) == { x \in items(d.sections) : x.notebookId = nb }
pagesOf(d, secs) == { x \in items(d.pages) : x.sectionId \in secs }

\* C30: after deleteNotebook(id) returned true no section has notebookId = id
\* and no page belongs to a section that was removed; after deleteSection(id)
\* returned true no page has sectionId = id; the sections and pages of other
\* notebooks and sections are as before, in the same order; a delete of an id
\* that names nothing returns false and changes nothing.
C30_CascadeDelete ==
  [][/\ (last'.op = "deleteNotebook")
          => LET id      == last'.arg
                 removed == { x.id : x \in sectionsOf(data, id) }
             IN  IF \E x \in items(data.notebooks) : x.id = id
                   THEN /\ last'.ret = TRUE
                        /\ sectionsOf(data', id) = {}
                        /\ pagesOf(data', removed) = {}
                        /\ \A x \in items(data'.notebooks) : x.id # id
                        /\ data'.sections = SelectSeq(data.sections, LAMBDA x : x.notebookId # id)
                        /\ data'.pages = SelectSeq(data.pages, LAMBDA x : x.sectionId \notin removed)
                   ELSE last'.ret = FALSE /\ data' = data /\ status' = status
     /\ (last'.op = "deleteSection")
          => LET id == last'.arg
             IN  IF \E x \in items(data.sections) : x.id = id
                   THEN /\ last'.ret = TRUE
                        /\ pagesOf(data', {id}) = {}
                        /\ \A x \in items(data'.sections) : x.id # id
                        /\ data'.notebooks = data.notebooks
                        /\ items(data'.sections) = { x \in items(data.sections) : x.id # id }
                        /\ data'.pages = SelectSeq(data.pages, LAMBDA x : x.sectionId # id)
                   ELSE last'.ret = FALSE /\ data' = data /\ status' = status]_vars

\* notebook nb1 was deleted while it had two sections with pages and the other
\* notebook had a section with a page: that section and its page are still there
C30_Witness ==
  /\ last.op = "deleteNotebook" /\ last.arg = "nb1" /\ last.ret = TRUE
  /\ data.sections = <<Section("s3", "nb2"), Section("s4", "nb9")>>
  /\ data.pages = <<Page("p3", "s3"), Page("p5", "s9")>>
  /\ status.pendingChanges = {"notebooks", "sections", "pages"}

\* the page with the id in DB.data d, Null when none
pageIn(d, id) ==
  LET i == findIndex(d.pages, id)
  IN  IF i = 0 THEN Null ELSE <<d.pages[i]>>

\* C25: when the timer of a debounced title or content edit runs, the page that
\* was active when the text was typed holds the typed text; and when that page
\* is still the active one, it holds both the title and the content the editor
\* shows: the write is not redirected, not discarded, and an edit of the other
\* field within the delay does not cancel it.  (The case that the same page
\* was selected again, which loads the stored text back into the editor, is
\* left aside.)
C25_PageEditWritten ==
  [][(/\ editorTimeout # Null /\ editorTimeout' = Null
      /\ (<<editorTimeout[1].page>> = appState.activePage)
            => editor[1][editorTimeout[1].field] = editorTimeout[1].value)
       => LET f  == editorTimeout[1]
              pg == pageIn(data', f.page)
          IN  /\ pg # Null
              /\ pg[1][f.field] = f.value
              /\ (<<f.page>> = appState.activePage)
                    => /\ pg[1].title = editor[1].title
                       /\ pg[1].content = editor[1].content]_vars

\* C26: DB.status.synced is true exactly when DB.status.pendingChanges is
\* empty, in every state reached through mutations and calls of saveAllToCache
\* that succeed or fail; and a call of saveAllToCache that fails returns false
\* and leaves synced and pendingChanges as they were.
C26_SyncStatusConsistent ==
  /\ [](status.synced <=> status.pendingChanges = {})
  /\ [][(last'.op = "saveAllToCache" /\ ~last'.ret) => status' = status]_vars

\* a save has failed after a mutation: the changes are still pending
C26_Witness ==
  /\ last.op = "saveAllToCache" /\ ~last.ret
  /\ ~status.synced
  /\ status.pendingChanges = {"pages"}

\* no call of saveAllToCache is in progress
noSave == \A i \in Slots : saves[i] = Null

\* C27: whenever DB.status.synced is true and no call of saveAllToCache is in
\* progress, the cache holds every modification made to DB.data: a mutation
\* made while a save awaits its writes is not reported as synced at the end of
\* that save unless it was written.
C27_SyncedMeansWritten ==
  (status.synced /\ noSave) => cache = cacheOf(data)

\* C29: once every call of saveAllToCache that was started has completed and
\* no autosave timer is pending, each array table of the cache holds exactly
\* the records DB.data holds, also when two calls interleaved their clears and
\* puts and records were deleted or arrays replaced while a call was in
\* progress (read in sessions where every request succeeds).
C29_SavesConverge ==
  (noSave /\ ~autoSaveTimeout)
    => \A k \in 1 .. Len(ArrayTables) :
         cache[ArrayTables[k]] = items(data[ArrayTables[k]])

\* C28: after a mutation has called markModified, in sessions where the
\* mutations come to an end and every request succeeds, saveAllToCache runs
\* and DB.status.synced becomes true with pendingChanges empty: a mutation
\* replaces the pending autosave timer by a new one, and the timer fires.
C28_AutosaveLiveness ==
  (~status.synced) ~> (status.synced /\ status.pendingChanges = {})

\* the save started by the autosave timer after a mutation has completed
C28_Witness ==
  /\ fuel.ev < SaveEdits /\ fuel.btn = SaveClicks
  /\ last.op = "saveAllToCache" /\ last.ret
  /\ status.synced /\ status.pendingChanges = {}
  /\ ~autoSaveTimeout /\ noSave
====
